---- MODULE Spec2Model ----
(***************************************************************************)
(* Model of the task dispatcher of the host agent                          *)
(* (src/hosts/multiagent/host_agent.py) together with the lifecycle hooks  *)
(* it fires around a tool call (src/common/callbacks.py), and of the       *)
(* execution loop of the orchestrator                                      *)
(* (src/orchestrator/orchestrator_executor.py, orchestrator.py).           *)
(*                                                                         *)
(* A tool call runs in three steps, as the agent framework drives it:      *)
(*   HostAgent.before_tool  ->  the tool itself  ->  HostAgent.after_tool  *)
(* and after_tool is skipped when the tool raised.                         *)
(*                                                                         *)
(* Specifications:                                                         *)
(*   Spec          turns of the host agent, tool call by tool call         *)
(*   SpecParts     one dispatch, over every content of the answer          *)
(*   SpecConv      the Part Converter applied to lists of Parts            *)
(*   SpecRegistry  repeated registration of remote agents                  *)
(*   SpecExec      one turn of the orchestrator's execution loop           *)
(***************************************************************************)
EXTENDS Integers, Sequences, FiniteSets, TLC

VARIABLES
    remote_agent_connections, \* HostAgent.remote_agent_connections: name -> client handle
    cards,                    \* HostAgent.cards (insertion-ordered dict): sequence of cards
    agents,                   \* HostAgent.agents: the listing, one line per card
    state,                    \* the session state mapping (tool_context.state)
    actions,                  \* tool_context.actions of the tool call in progress
    saved,                    \* save_artifact calls made through the current tool_context
    uuids,                    \* number of uuid4() values drawn so far
    pc,                       \* position of the tool call in progress
    tool,                     \* the tool call in progress: name and arguments
    request,                  \* the request send_message handed to the client, if any
    response,                 \* what the remote agent answered, if it was asked
    outcome,                  \* how the tool ended: "returned" or the error raised
    result,                   \* the value the tool returned
    pre,                      \* the session state when the tool started to run
    last,                     \* summary of the most recent send_message call
    prev,                     \* summary of the send_message call before that
    calls,                    \* tool calls started so far
    dialogue_history,         \* callbacks._dialogue_history is not None
    hook_raised,              \* the error a lifecycle hook raised in this step ("" for none)
    records,                  \* rows of the dialogue store, in insertion order
    files,                    \* logical names of the files the recorder wrote
    messages,                 \* lines handed to HostAgent.message_callback
    rows_before,              \* number of rows in the store when the tool call began
    registered,               \* the register_agent_card calls made so far, in order
    conv_parts,               \* the Parts handed to the Part Converter
    conv_ctx,                 \* the tool context the conversion starts from
    conv_out,                 \* what the conversion yielded
    conv_pc,                  \* "ready", or which converter ran: "one" or "many"
    turn_pc,                  \* position of the orchestrator's turn: the hook or step due next
    executor_messages,        \* OrchestratorAgentExecutor._messages, the progress queue
    event_queue,              \* the events execute enqueued for the turn, in order
    item,                     \* the step execute handled last, the author of its event and
                              \* the way its iteration ended
    contents,                 \* the lines execute drained from the queue for that step
    mark,                     \* length of event_queue when that step arrived
    turn_error,               \* the error that ended the turn ("" for none)
    steps,                    \* steps the agent stream produced so far
    clock,                    \* lines appended so far; a line's timestamp is its number
    turn_tool,                \* the tool between its before_tool and after_tool hooks
    sessions,                 \* session ids the session service holds
    recording_failed,         \* a recorder write or a store append failed in this turn
    db_rows,                  \* the table dialogue_records: its rows in insertion order
    db_pending,               \* per invocation, the record append added but has not committed
    db_log,                   \* the appends that returned: the id and the record handed in
    db_result,                \* what the latest call on the store yielded so far
    db_clock,                 \* datetime.now() of the callers, as a count of the records built
    idx,                      \* Recorder.idx
    last_formatted_time,      \* Recorder.last_formatted_time, 0 for None
    now,                      \* the millisecond get_formatted_time reads
    filenames,                \* the names make_filename returned and when, in call order
    orch_agent,               \* Orchestrator.agent is not None
    runner,                   \* Orchestrator._runner: the number of its session service, 0
                              \* before a Runner was built
    services,                 \* the InMemorySessionService objects built so far, each the
                              \* sessions it holds
    turns,                    \* the Orchestrator.stream calls: where each one is
    creations,                \* the create_session calls made so far, in order
    poll_pc,                  \* _poll_task_status: "poll", "sleep", "returned" or "raised"
    job,                      \* what the video service answers about the task right now
    seen,                     \* the latest answers the loop got and how long it slept on each
    poll_out,                 \* what _poll_task_status returned or raised
    flight                    \* two execute calls on the one executor: which of them is
                              \* running, the local variables of the suspended one, and
                              \* for each progress line the call whose hook appended it

hostVars == <<remote_agent_connections, cards, agents, state, actions, saved, uuids,
              pc, tool, request, response, outcome, result, pre, last, prev, calls,
              dialogue_history, hook_raised, records, files, messages, rows_before>>
hubVars == <<dialogue_history, records, files>>
dispatchVars == <<remote_agent_connections, cards, agents, state, actions, saved, uuids,
                  pc, tool, request, response, outcome, result, pre, last, prev, calls,
                  hook_raised, messages, rows_before>>
convVars == <<conv_parts, conv_ctx, conv_out, conv_pc>>
execVars == <<turn_pc, executor_messages, event_queue, item, contents, mark, turn_error,
              steps, clock, turn_tool, sessions, recording_failed>>
storeVars == <<db_rows, db_pending, db_log, db_result, db_clock>>
recorderVars == <<idx, last_formatted_time, now, filenames>>
sessionVars == <<orch_agent, runner, services, turns, creations>>
pollVars == <<poll_pc, job, seen, poll_out>>
serviceVars == <<storeVars, recorderVars, sessionVars, pollVars, flight>>
outsideStore ==
    <<hostVars, registered, convVars, execVars, recorderVars, sessionVars, pollVars, flight>>
outsideRecorder ==
    <<hostVars, registered, convVars, execVars, storeVars, sessionVars, pollVars, flight>>
outsideSessions ==
    <<hostVars, registered, convVars, execVars, storeVars, recorderVars, pollVars, flight>>
outsidePoll ==
    <<hostVars, registered, convVars, execVars, storeVars, recorderVars, sessionVars, flight>>
otherVars == <<registered, convVars, execVars, serviceVars>>
vars == <<hostVars, otherVars>>

(***************************************************************************)
(* Bounds                                                                  *)
(***************************************************************************)
MaxCalls == 2        \* tool calls in one behaviour
MaxParts == 3        \* Parts in one answer, status message and artifacts together
MaxArtifacts == 2    \* artifacts of one task
MaxRegistrations == 3   \* register_agent_card calls in one behaviour
MaxTurns == 3        \* Orchestrator.stream calls in one behaviour

(***************************************************************************)
(* Values                                                                  *)
(***************************************************************************)
None == "None"
NULL == "NULL"

RemoteNames == {"alpha"}            \* names of the remote agents that exist
AgentNames == RemoteNames \cup {"ghost"}   \* names a tool call may address
Descriptions == {"d1"}
MessageTexts == {"hi"}

\* a2a.types.TaskState, the seven states of the remote agent protocol
TaskState ==
    {"submitted", "working", "input_required", "completed", "canceled", "failed", "unknown"}

\* base64.b64decode on the encoded payloads the model uses
b64decode(b) ==
    CASE b = "QQ==" -> "A"
      [] b = "Qg==" -> "B"

TextParts == {[kind |-> "text", text |-> "hello"]}
DataParts == {[kind |-> "data", data |-> "{a:1}"]}
FileParts ==
    {[kind |-> "file", file |-> [name |-> n, mimeType |-> "image/png", bytes |-> b]] :
        n \in {"f.png"}, b \in {"QQ=="}}
Parts == TextParts \cup DataParts \cup FileParts

RECURSIVE SeqsUpTo(_, _)
SeqsUpTo(S, n) ==
    IF n = 0 THEN {<<>>}
    ELSE LET shorter == SeqsUpTo(S, n - 1)
         IN  shorter \cup {Append(s, x) : s \in {t \in shorter : Len(t) = n - 1}, x \in S}

(***************************************************************************)
(* Session state: a mapping whose domain is the set of keys present.       *)
(***************************************************************************)
Has(s, k) == k \in DOMAIN s
Get(s, k) == IF k \in DOMAIN s THEN s[k] ELSE None
Set(s, k, v) == [x \in (DOMAIN s) \cup {k} |-> IF x = k THEN v ELSE s[x]]
EmptyState == [k \in {} |-> None]

\* str(uuid.uuid4()): the n-th value drawn
uuid4(n) == "u" \o ToString(n)

(***************************************************************************)
(* Part Converter: convert_part / convert_parts.  A tool context ctx is    *)
(* [actions, saved, signals]: signals counts how often the two action      *)
(* flags were assigned through it.  A conversion yields the converted      *)
(* value, the context after its side effects, and the error it raised      *)
(* ("" for none).                                                          *)
(***************************************************************************)
NoActions == [skip_summarization |-> FALSE, escalate |-> FALSE]
NewToolContext == [actions |-> NoActions, saved |-> <<>>, signals |-> 0]

\* convert_part that returns the content of the file next to its name
convert_part_inline(part, ctx) ==
    IF part.kind = "text" THEN
        [rval |-> [str |-> part.text], ctx |-> ctx, raised |-> ""]
    ELSE IF part.kind = "data" THEN
        [rval |-> [dict |-> part.data], ctx |-> ctx, raised |-> ""]
    ELSE IF part.kind = "file" THEN
        [rval |-> [DataPart |-> [artifact_file_id |-> part.file.name,
                                 bytes |-> part.file.bytes]],
         ctx |-> ctx, raised |-> ""]
    ELSE [rval |-> [str |-> "Unknown type"], ctx |-> ctx, raised |-> "AttributeError"]

\* convert_part that saves the file and leaves the two action flags alone
convert_part_no_signal(part, ctx) ==
    IF part.kind = "text" THEN
        [rval |-> [str |-> part.text], ctx |-> ctx, raised |-> ""]
    ELSE IF part.kind = "data" THEN
        [rval |-> [dict |-> part.data], ctx |-> ctx, raised |-> ""]
    ELSE IF part.kind = "file" THEN
        [rval |-> [DataPart |-> [artifact_file_id |-> part.file.name]],
         ctx |-> [ctx EXCEPT !.saved =
                     Append(ctx.saved,
                            [filename |-> part.file.name,
                             artifact |-> [inline_data |->
                                              [mime_type |-> part.file.mimeType,
                                               data |-> b64decode(part.file.bytes)]]])],
         raised |-> ""]
    ELSE [rval |-> [str |-> "Unknown type"], ctx |-> ctx, raised |-> "AttributeError"]

convert_part(part, ctx) ==
    IF part.kind = "text" THEN
        [rval |-> [str |-> part.text], ctx |-> ctx, raised |-> ""]
    ELSE IF part.kind = "data" THEN
        [rval |-> [dict |-> part.data], ctx |-> ctx, raised |-> ""]
    ELSE IF part.kind = "file" THEN
        LET file_id == part.file.name
            file_bytes == b64decode(part.file.bytes)
            file_part == [inline_data |->
                             [mime_type |-> part.file.mimeType, data |-> file_bytes]]
        IN  [rval |-> [DataPart |-> [artifact_file_id |-> file_id]],
             ctx |-> [saved |-> Append(ctx.saved, [filename |-> file_id, artifact |-> file_part]),
                      actions |-> [skip_summarization |-> TRUE, escalate |-> TRUE],
                      signals |-> ctx.signals + 1],
             raised |-> ""]
    ELSE \* part.kind: the Part wrapper has no such attribute, only part.root has
        [rval |-> [str |-> "Unknown type"], ctx |-> ctx, raised |-> "AttributeError"]

\* convert_parts that puts each converted Part in front of the list
RECURSIVE convert_parts_reversed(_, _)
convert_parts_reversed(parts, ctx) ==
    IF parts = <<>> THEN [rval |-> <<>>, ctx |-> ctx, raised |-> ""]
    ELSE LET head == convert_part(Head(parts), ctx)
         IN  IF head.raised # "" THEN [rval |-> <<>>, ctx |-> head.ctx, raised |-> head.raised]
             ELSE LET rest == convert_parts_reversed(Tail(parts), head.ctx)
                  IN  [rval |-> rest.rval \o <<head.rval>>, ctx |-> rest.ctx,
                       raised |-> rest.raised]

RECURSIVE convert_parts(_, _)
convert_parts(parts, ctx) ==
    IF parts = <<>> THEN [rval |-> <<>>, ctx |-> ctx, raised |-> ""]
    ELSE LET head == convert_part(Head(parts), ctx)
         IN  IF head.raised # "" THEN [rval |-> <<>>, ctx |-> head.ctx, raised |-> head.raised]
             ELSE LET rest == convert_parts(Tail(parts), head.ctx)
                  IN  [rval |-> <<head.rval>> \o rest.rval, ctx |-> rest.ctx,
                       raised |-> rest.raised]

(***************************************************************************)
(* Remote Agent Registry                                                   *)
(***************************************************************************)
\* The client handle the constructor of RemoteAgentConnections yields for a card.
RemoteAgentConnections == {"connection", NULL}

\* a list that takes every card as a new entry
PutCard_append(cs, card) == Append(cs, card)

\* dict assignment d[card.name] = card on an insertion-ordered dict
PutCard(cs, card) ==
    IF \E i \in 1..Len(cs) : cs[i].name = card.name
    THEN [i \in 1..Len(cs) |-> IF cs[i].name = card.name THEN card ELSE cs[i]]
    ELSE Append(cs, card)

list_remote_agents(conns, cs) ==
    IF DOMAIN conns = {} THEN <<>>
    ELSE [i \in 1..Len(cs) |-> [name |-> cs[i].name, description |-> cs[i].description]]

register_agent_card(card, handle) ==
    /\ remote_agent_connections' = Set(remote_agent_connections, card.name, handle)
    /\ cards' = PutCard(cards, card)
    /\ agents' = list_remote_agents(remote_agent_connections', cards')
    /\ UNCHANGED <<state, actions, saved, uuids, pc, tool, request, response, outcome,
                   result, pre, last, prev, calls, dialogue_history, hook_raised,
                   records, files, messages, rows_before>>
    /\ UNCHANGED <<convVars, execVars, serviceVars>>

(***************************************************************************)
(* Task Dispatcher: HostAgent.send_message, in the order of its statements *)
(***************************************************************************)
\* resolve with the test of the handle left out
resolve_null_usable(conns, agent_name) ==
    IF agent_name \notin DOMAIN conns THEN "UnknownAgent" ELSE "ok"

\* "agent_name not in self.remote_agent_connections", then "not client"
resolve(conns, agent_name) ==
    IF agent_name \notin DOMAIN conns THEN "UnknownAgent"
    ELSE IF conns[agent_name] = NULL THEN "ClientUnavailable"
    ELSE "ok"

\* the continuation identifiers read from the state, and the request built from them;
\* n uuid4() values were drawn before
build_request(st, n, message) ==
    LET taskId == Get(st, "task_id")
        contextId == Get(st, "context_id")
        stored == Get(st, "message_id")
        fresh == stored = None \/ stored = ""
        messageId == IF fresh THEN uuid4(n + 1) ELSE stored
        drawn == IF fresh THEN n + 1 ELSE n
    IN  [request |-> [id |-> uuid4(drawn + 1),
                      message |-> [role |-> "user",
                                   parts |-> <<[kind |-> "text", text |-> message]>>,
                                   messageId |-> messageId,
                                   contextId |-> contextId,
                                   taskId |-> taskId]],
         uuids |-> drawn + 1]

\* update_state with unknown missing from the list of closed states
update_state_unknown_active(st, task) ==
    LET active == task.status.state \notin {"completed", "canceled", "failed"}
        s1 == Set(st, "session_active", active)
        s2 == IF task.contextId # None /\ task.contextId # ""
              THEN Set(s1, "context_id", task.contextId) ELSE s1
    IN  Set(s2, "task_id", task.id)

\* update_state that also keeps the id of the task as the message id
update_state_message_id(st, task) ==
    LET active == task.status.state \notin {"completed", "canceled", "failed", "unknown"}
        s1 == Set(st, "session_active", active)
        s2 == IF task.contextId # None /\ task.contextId # ""
              THEN Set(s1, "context_id", task.contextId) ELSE s1
    IN  Set(Set(s2, "task_id", task.id), "message_id", task.id)

\* the session keys written once a task came back
update_state(st, task) ==
    LET active == task.status.state \notin {"completed", "canceled", "failed", "unknown"}
        s1 == Set(st, "session_active", active)
        s2 == IF task.contextId # None /\ task.contextId # ""
              THEN Set(s1, "context_id", task.contextId) ELSE s1
    IN  Set(s2, "task_id", task.id)

\* branch without the input_required arm
branch_no_signal(task_state) ==
    IF task_state = "canceled" THEN "RemoteTaskCanceled"
    ELSE IF task_state = "failed" THEN "RemoteTaskFailed"
    ELSE "pass"

\* branch with the two raising arms exchanged
branch_swapped(task_state) ==
    IF task_state = "input_required" THEN "signal"
    ELSE IF task_state = "canceled" THEN "RemoteTaskFailed"
    ELSE IF task_state = "failed" THEN "RemoteTaskCanceled"
    ELSE "pass"

\* the if / elif / elif on task.status.state
branch(task_state) ==
    IF task_state = "input_required" THEN "signal"
    ELSE IF task_state = "canceled" THEN "RemoteTaskCanceled"
    ELSE IF task_state = "failed" THEN "RemoteTaskFailed"
    ELSE "pass"

RECURSIVE collect_artifacts(_, _)
collect_artifacts(artifacts, ctx) ==
    IF artifacts = <<>> THEN [rval |-> <<>>, ctx |-> ctx, raised |-> ""]
    ELSE LET head == convert_parts(Head(artifacts).parts, ctx)
         IN  IF head.raised # "" THEN head
             ELSE LET rest == collect_artifacts(Tail(artifacts), head.ctx)
                  IN  [rval |-> head.rval \o rest.rval, ctx |-> rest.ctx,
                       raised |-> rest.raised]

\* collect that stops after the status message
collect_message_only(task, ctx) ==
    IF task.status.message # <<>>
    THEN convert_parts(task.status.message[1].parts, ctx)
    ELSE [rval |-> <<>>, ctx |-> ctx, raised |-> ""]

\* collect that takes the artifacts before the status message
collect_artifacts_first(task, ctx) ==
    LET fromArtifacts == collect_artifacts(task.artifacts, ctx)
        fromMessage == IF task.status.message # <<>>
                       THEN convert_parts(task.status.message[1].parts, fromArtifacts.ctx)
                       ELSE [rval |-> <<>>, ctx |-> fromArtifacts.ctx, raised |-> ""]
    IN  [rval |-> fromArtifacts.rval \o fromMessage.rval, ctx |-> fromMessage.ctx,
         raised |-> ""]

\* response = []; the status message's Parts, then each artifact's Parts
collect(task, ctx) ==
    LET fromMessage == IF task.status.message # <<>>
                       THEN convert_parts(task.status.message[1].parts, ctx)
                       ELSE [rval |-> <<>>, ctx |-> ctx, raised |-> ""]
    IN  IF fromMessage.raised # "" THEN fromMessage
        ELSE LET fromArtifacts == collect_artifacts(task.artifacts, fromMessage.ctx)
             IN  [rval |-> fromMessage.rval \o fromArtifacts.rval,
                  ctx |-> fromArtifacts.ctx, raised |-> fromArtifacts.raised]

\* What send_message does from "response = await client.send_message(...)" on.
\* A plain Message reaches "task.parts" while the local name task is still unbound.
handle_response(st, ctx, answer) ==
    IF answer.type = "Message" THEN
        [state |-> st, ctx |-> ctx, outcome |-> "UnboundLocalError", result |-> <<>>]
    ELSE
        LET st2 == update_state(st, answer)
            way == branch(answer.status.state)
            ctx2 == IF way = "signal"
                    THEN [ctx EXCEPT !.actions = [skip_summarization |-> TRUE,
                                                  escalate |-> TRUE]]
                    ELSE ctx
        IN  IF way \in {"RemoteTaskCanceled", "RemoteTaskFailed"}
            THEN [state |-> st2, ctx |-> ctx2, outcome |-> way, result |-> <<>>]
            ELSE LET got == collect(answer, ctx2)
                 IN  IF got.raised # ""
                     THEN [state |-> st2, ctx |-> got.ctx, outcome |-> got.raised,
                           result |-> <<>>]
                     ELSE [state |-> st2, ctx |-> got.ctx, outcome |-> "returned",
                           result |-> got.rval]

Summary(req, answer) ==
    [request |-> req,
     task |-> IF answer # <<>> /\ answer[1].type = "Task"
              THEN <<[id |-> answer[1].id, contextId |-> answer[1].contextId,
                      state |-> answer[1].status.state]>>
              ELSE <<>>]

\* the tool send_message; the remote agent, if it is asked, replies with one of answers
send_message(answers) ==
    /\ pc = "tool"
    /\ tool.name = "send_message"
    /\ \E answer \in answers :
       LET agent_name == tool.args.agent_name
           found == resolve(remote_agent_connections, agent_name)
           ctx == [actions |-> actions, saved |-> saved, signals |-> 0]
       IN  /\ pre' = state
           /\ prev' = last
           /\ IF found = "UnknownAgent" THEN
                  /\ outcome' = "UnknownAgent"
                  /\ UNCHANGED <<state, actions, saved, uuids>>
                  /\ request' = <<>> /\ response' = <<>> /\ result' = <<>>
              ELSE IF found = "ClientUnavailable" THEN
                  /\ state' = Set(state, "agent", agent_name)
                  /\ outcome' = "ClientUnavailable"
                  /\ UNCHANGED <<actions, saved, uuids>>
                  /\ request' = <<>> /\ response' = <<>> /\ result' = <<>>
              ELSE
                  \E built \in {build_request(Set(state, "agent", agent_name), uuids,
                                                tool.args.message)},
                     done \in {handle_response(Set(state, "agent", agent_name), ctx, answer)} :
                      /\ request' = <<built.request>>
                      /\ uuids' = built.uuids
                      /\ response' = <<answer>>
                      /\ state' = done.state
                      /\ actions' = done.ctx.actions
                      /\ saved' = done.ctx.saved
                      /\ outcome' = done.outcome
                      /\ result' = done.result
           /\ last' = Summary(request', response')
           /\ pc' = IF outcome' = "returned" THEN "returned" ELSE "raised"
    /\ UNCHANGED <<remote_agent_connections, cards, agents, tool, calls,
                   dialogue_history, hook_raised, records, files, messages, rows_before>>
    /\ UNCHANGED otherVars

\* check_state(context): the agent the instruction of the host names as current
check_state(st) ==
    IF Has(st, "context_id") /\ Has(st, "session_active") /\ st["session_active"]
       /\ Has(st, "agent")
    THEN [active_agent |-> st["agent"]]
    ELSE [active_agent |-> "None"]

\* the tool list_remote_agents
list_remote_agents_tool ==
    /\ pc = "tool"
    /\ tool.name = "list_remote_agents"
    /\ pre' = state
    /\ result' = list_remote_agents(remote_agent_connections, cards)
    /\ outcome' = "returned"
    /\ pc' = "returned"
    /\ UNCHANGED <<remote_agent_connections, cards, agents, state, actions, saved, uuids,
                   tool, request, response, last, prev, calls, dialogue_history,
                   hook_raised, records, files, messages, rows_before>>
    /\ UNCHANGED otherVars

(***************************************************************************)
(* Lifecycle hooks (common/callbacks.py) as HostAgent forwards to them     *)
(***************************************************************************)
with_record == TRUE                \* config.with_record
InvocationId == "e-7f3a-000001"    \* ctx.invocation_id of the turn
InvocationTail == "000001"         \* ctx.invocation_id[-6:]
HostName == "host_agent"           \* ctx.agent_name
SessionOf == [user_id |-> "user", session_id |-> "session", app_name |-> "app"]

\* recorder.save_json(filename, data): nothing is written unless config.with_record
save_json(fs, filename) == IF with_record THEN Append(fs, filename) ELSE fs

\* DialogueRecord(...) validated by pydantic: data is Optional[Dict]
IsDict(data) == data.py = "dict"
DialogueRecord(tag, name, data) ==
    [user_id |-> SessionOf.user_id, session_id |-> SessionOf.session_id,
     app_name |-> SessionOf.app_name, invocation_id |-> InvocationId,
     agent_name |-> HostName, tag |-> tag, name |-> name, data |-> data.value]

\* append that never reaches the store
append_never(rows, open, tag, name, data) == [rows |-> rows, raised |-> ""]

\* "if _dialogue_history is not None: await _dialogue_history.append(DialogueRecord(...))"
\* yields the rows afterwards and the error raised while building the record
append(rows, open, tag, name, data) ==
    IF ~open THEN [rows |-> rows, raised |-> ""]
    ELSE IF ~IsDict(data) THEN [rows |-> rows, raised |-> "ValidationError"]
    ELSE [rows |-> Append(rows, DialogueRecord(tag, name, data)), raised |-> ""]

\* run once by the process bootstrap, before the first turn
initialize_callbacks ==
    /\ calls = 0 /\ pc = "idle"
    /\ ~dialogue_history
    /\ dialogue_history' = TRUE
    /\ UNCHANGED <<remote_agent_connections, cards, agents, state, actions, saved, uuids,
                   pc, tool, request, response, outcome, result, pre, last, prev, calls,
                   hook_raised, records, files, messages, rows_before>>
    /\ UNCHANGED otherVars

\* HostAgent.before_model: record the state and the request, then open the session
before_model ==
    /\ pc = "idle"
    /\ calls < MaxCalls
    /\ calls' = calls + 1
    /\ files' = save_json(save_json(save_json(files,
                    <<InvocationTail, "BM", HostName, "state">>),
                    <<InvocationTail, "BM", HostName, "request.0">>),
                    <<InvocationTail, "BM", HostName, "request.1">>)
    /\ LET first == append(records, dialogue_history, "before_model", "state",
                           [py |-> "dict", value |-> state])
           second == append(first.rows, dialogue_history, "before_model", "llm_request",
                            [py |-> "dict", value |-> "llm_request"])
       IN  records' = second.rows
    /\ LET closed == ~Has(state, "session_active") \/ ~state["session_active"]
           s1 == IF closed /\ ~Has(state, "session_id")
                 THEN Set(state, "session_id", uuid4(uuids + 1)) ELSE state
       IN  /\ state' = Set(s1, "session_active", TRUE)
           /\ uuids' = IF closed /\ ~Has(state, "session_id") THEN uuids + 1 ELSE uuids
    /\ messages' = Append(messages, <<HostName, "before_model">>)
    /\ hook_raised' = ""
    /\ pc' = "model"
    /\ UNCHANGED <<remote_agent_connections, cards, agents, actions, saved, tool, request,
                   response, outcome, result, pre, last, prev, dialogue_history, rows_before>>
    /\ UNCHANGED otherVars

\* HostAgent.after_model
after_model ==
    /\ pc = "model"
    /\ files' = save_json(save_json(save_json(files,
                    <<InvocationTail, "AM", HostName, "state">>),
                    <<InvocationTail, "AM", HostName, "response.0">>),
                    <<InvocationTail, "AM", HostName, "response.1">>)
    /\ LET first == append(records, dialogue_history, "after_model", "state",
                           [py |-> "dict", value |-> state])
           second == append(first.rows, dialogue_history, "after_model", "llm_response",
                            [py |-> "dict", value |-> "llm_response"])
       IN  records' = second.rows
    /\ messages' = Append(messages, <<HostName, "after_model">>)
    /\ hook_raised' = ""
    /\ pc' = "decided"
    /\ UNCHANGED <<remote_agent_connections, cards, agents, state, actions, saved, uuids,
                   tool, request, response, outcome, result, pre, last, prev, calls,
                   dialogue_history, rows_before>>
    /\ UNCHANGED otherVars

\* HostAgent.before_tool, fired with the tool call the model asked for; the
\* framework hands the tool a new tool context
before_tool(name, args) ==
    /\ pc = "decided"
    /\ tool' = [name |-> name, args |-> args]
    /\ files' = save_json(files, <<InvocationTail, "BT", HostName, name, "args">>)
    /\ records' = append(records, dialogue_history, "before_tool", name,
                         [py |-> "dict", value |-> args]).rows
    /\ messages' = Append(messages, <<HostName, "before_tool", name, args>>)
    /\ actions' = NewToolContext.actions
    /\ saved' = NewToolContext.saved
    /\ request' = <<>> /\ response' = <<>> /\ result' = <<>> /\ outcome' = ""
    /\ hook_raised' = ""
    /\ rows_before' = Len(records)
    /\ pc' = "tool"
    /\ UNCHANGED <<remote_agent_connections, cards, agents, state, uuids, pre, last, prev,
                   calls, dialogue_history>>
    /\ UNCHANGED otherVars

\* HostAgent.after_tool, fired only when the tool returned; both tools return a list
after_tool ==
    /\ pc = "returned"
    /\ files' = save_json(files, <<InvocationTail, "AT", HostName, tool.name, "response">>)
    /\ LET done == append(records, dialogue_history, "after_tool", tool.name,
                          [py |-> "list", value |-> result])
       IN  /\ records' = done.rows
           /\ hook_raised' = done.raised
           /\ messages' = IF done.raised = ""
                          THEN Append(messages, <<HostName, "after_tool", tool.name>>)
                          ELSE messages
    /\ pc' = "idle"
    /\ UNCHANGED <<remote_agent_connections, cards, agents, state, actions, saved, uuids,
                   tool, request, response, outcome, result, pre, last, prev, calls,
                   dialogue_history, rows_before>>
    /\ UNCHANGED otherVars

\* the error of a tool that raised goes up to the framework; no after_tool
tool_error ==
    /\ pc = "raised"
    /\ pc' = "idle"
    /\ UNCHANGED <<remote_agent_connections, cards, agents, state, actions, saved, uuids,
                   tool, request, response, outcome, result, pre, last, prev, calls,
                   dialogue_history, hook_raised, records, files, messages, rows_before>>
    /\ UNCHANGED otherVars

(***************************************************************************)
(* What a remote agent may answer                                          *)
(***************************************************************************)
Task(id, contextId, st, message, artifacts) ==
    [type |-> "Task", id |-> id, contextId |-> contextId,
     status |-> [state |-> st, message |-> message], artifacts |-> artifacts]

\* the artifact lists of at most k artifacts that hold at most budget Parts in all
RECURSIVE ArtifactLists(_, _)
ArtifactLists(k, budget) ==
    IF k = 0 THEN {<<>>}
    ELSE {<<>>} \cup
         UNION {{<<[parts |-> ps]>> \o rest : rest \in ArtifactLists(k - 1, budget - Len(ps))} :
                    ps \in SeqsUpTo(Parts, budget)}

\* status message and artifacts of a task, at most MaxParts Parts in all
Contents ==
    {[message |-> <<>>, artifacts |-> a] : a \in ArtifactLists(MaxArtifacts, MaxParts)}
    \cup UNION {{[message |-> <<[parts |-> ps]>>, artifacts |-> a] :
                    a \in ArtifactLists(MaxArtifacts, MaxParts - Len(ps))} :
                        ps \in SeqsUpTo(Parts, MaxParts)}

\* Answers that vary the content: every state, every content, and plain Messages
PartAnswers ==
    {Task("t1", "c1", st, c.message, c.artifacts) : st \in TaskState, c \in Contents}
    \cup {[type |-> "Message", parts |-> ps] : ps \in SeqsUpTo(Parts, MaxParts)}

\* Answers that vary the identifiers and the state and carry one text Part: every
\* state for task t1 with and without a context id, and the states that continue or
\* close a conversation also for a second task.
Hello == <<[parts |-> <<[kind |-> "text", text |-> "hello"]>>]>>
Answers ==
    {Task("t1", c, st, Hello, <<>>) : c \in {"c1", None}, st \in TaskState}
    \cup {Task("t2", c, st, Hello, <<>>) :
            c \in {"c2", None}, st \in {"input_required", "completed"}}
    \cup {[type |-> "Message", parts |-> Hello[1].parts]}

Cards == {[name |-> n, description |-> d] : n \in RemoteNames, d \in Descriptions}
ToolCalls ==
    {[name |-> "send_message", args |-> [agent_name |-> n, message |-> m]] :
        n \in AgentNames, m \in MessageTexts}
    \cup {[name |-> "list_remote_agents", args |-> EmptyState]}

(***************************************************************************)
(* The host agent after construction, in a session the runner supplies     *)
(***************************************************************************)
HostInit ==
    /\ \E addresses \in SeqsUpTo(Cards, 1) :
          /\ cards = addresses
          /\ remote_agent_connections =
                [n \in {addresses[i].name : i \in 1..Len(addresses)} |-> "connection"]
          /\ agents = list_remote_agents(remote_agent_connections, cards)
    /\ state \in {EmptyState, Set(EmptyState, "message_id", "m0")}
    /\ actions = NoActions
    /\ saved = <<>>
    /\ uuids = 0
    /\ pc = "idle"
    /\ tool = [name |-> "", args |-> EmptyState]
    /\ request = <<>>
    /\ response = <<>>
    /\ outcome = ""
    /\ result = <<>>
    /\ pre = EmptyState
    /\ last = Summary(<<>>, <<>>)
    /\ prev = Summary(<<>>, <<>>)
    /\ calls = 0
    /\ dialogue_history = FALSE
    /\ hook_raised = ""
    /\ records = <<>>
    /\ files = <<>>
    /\ messages = <<>>
    /\ rows_before = 0

\* the Part Converter before it is called
ConvIdle ==
    /\ conv_parts = <<>>
    /\ conv_ctx = NewToolContext
    /\ conv_out = [rval |-> <<>>, ctx |-> NewToolContext, raised |-> ""]
    /\ conv_pc = "ready"

\* the executor after construction, before a turn
ExecIdle ==
    /\ turn_pc = "idle"
    /\ executor_messages = <<>>
    /\ event_queue = <<>>
    /\ item = <<>>
    /\ contents = <<>>
    /\ mark = 0
    /\ turn_error = ""
    /\ steps = 0
    /\ clock = 0
    /\ turn_tool = ""
    /\ sessions = {}
    /\ recording_failed = FALSE

\* the services after construction; the dialogue store after open(): the table
\* exists and is empty
Invocations == {"e-7f3a-000001", "e-7f3a-000002"}
ServicesIdle ==
    /\ db_rows = <<>>
    /\ db_pending = [inv \in Invocations |-> <<>>]
    /\ db_log = <<>>
    /\ db_result = [op |-> "open", id |-> 0, keyword |-> "", limit |-> 0, found |-> <<>>,
                    raised |-> ""]
    /\ db_clock = 0
    /\ idx = 0 /\ last_formatted_time = 0 /\ now = 1 /\ filenames = <<>>
    /\ orch_agent = FALSE /\ runner = 0 /\ services = <<>> /\ creations = <<>>
    /\ turns = [t \in 1..MaxTurns |-> [pc |-> "idle", session_id |-> "", runner |-> 0]]
    /\ poll_pc = "poll" /\ seen = <<>>
    /\ job = [status |-> "queued", result |-> "", content |-> ""]
    /\ poll_out = [video_url |-> "", raised |-> ""]
    /\ flight = [current |-> "task-1", owner |-> <<>>,
                 suspended |-> [turn_pc |-> "idle", event_queue |-> <<>>, item |-> <<>>,
                                contents |-> <<>>, mark |-> 0, turn_error |-> "",
                                steps |-> 0, turn_tool |-> "",
                                recording_failed |-> FALSE]]

Init == HostInit /\ registered = <<>> /\ ConvIdle /\ ExecIdle /\ ServicesIdle

\* One turn of the host agent: model call, then the tool call the model asked for,
\* at most MaxCalls times.  Agents are registered between the steps of the turn.
Next ==
    \/ \E card \in Cards, handle \in RemoteAgentConnections :
          pc = "idle" /\ register_agent_card(card, handle) /\ UNCHANGED registered
    \/ initialize_callbacks
    \/ before_model
    \/ after_model
    \/ \E t \in ToolCalls : before_tool(t.name, t.args)
    \/ send_message(Answers)
    \/ list_remote_agents_tool
    \/ after_tool
    \/ tool_error

Spec == Init /\ [][Next]_vars

\* One dispatch to a registered agent in a new session, over every content of the answer
NextParts ==
    \/ calls = 0 /\ before_model
    \/ after_model
    \/ \E m \in MessageTexts : before_tool("send_message", [agent_name |-> "alpha", message |-> m])
    \/ send_message(PartAnswers)
    \/ after_tool
    \/ tool_error

SpecParts == Init /\ [][NextParts]_vars

(***************************************************************************)
(* The Part Converter on its own: convert_part and convert_parts applied   *)
(* to Parts of every kind, through a new tool context and through one that *)
(* already converted a file.                                               *)
(***************************************************************************)
ConvFileParts ==
    {[kind |-> "file", file |-> [name |-> n, mimeType |-> "image/png", bytes |-> b]] :
        n \in {"f.png", "g.png"}, b \in {"QQ==", "Qg=="}}
\* a Part whose kind is none of the three the branches of convert_part test
OtherParts == {[kind |-> "video"]}
ConvParts == TextParts \cup DataParts \cup ConvFileParts \cup OtherParts
ConvContexts ==
    {NewToolContext,
     [actions |-> [skip_summarization |-> TRUE, escalate |-> TRUE],
      saved |-> <<[filename |-> "e.png",
                   artifact |-> [inline_data |-> [mime_type |-> "image/png", data |-> "A"]]]>>,
      signals |-> 1]}

InitConv ==
    /\ HostInit /\ cards = <<>> /\ state = EmptyState
    /\ registered = <<>>
    /\ conv_parts \in SeqsUpTo(ConvParts, MaxParts)
    /\ conv_ctx \in ConvContexts
    /\ conv_out = [rval |-> <<>>, ctx |-> conv_ctx, raised |-> ""]
    /\ conv_pc = "ready"
    /\ ExecIdle
    /\ ServicesIdle

\* convert_part(part, tool_context) on one Part
call_convert_part ==
    /\ conv_pc = "ready"
    /\ Len(conv_parts) = 1
    /\ conv_out' = convert_part(conv_parts[1], conv_ctx)
    /\ conv_pc' = "one"
    /\ UNCHANGED <<hostVars, registered, execVars, serviceVars, conv_parts, conv_ctx>>

\* convert_parts(parts, tool_context) on a list of Parts
call_convert_parts ==
    /\ conv_pc = "ready"
    /\ conv_out' = convert_parts(conv_parts, conv_ctx)
    /\ conv_pc' = "many"
    /\ UNCHANGED <<hostVars, registered, execVars, serviceVars, conv_parts, conv_ctx>>

NextConv ==
    \/ call_convert_part
    \/ call_convert_parts

SpecConv == InitConv /\ [][NextConv]_vars

(***************************************************************************)
(* The registry on its own: agents are registered again and again, under   *)
(* two names, with two descriptions and with either client handle.         *)
(***************************************************************************)
RegNames == {"alpha", "beta"}
RegDescriptions == {"d1", "d2"}
RegCards == {[name |-> n, description |-> d] : n \in RegNames, d \in RegDescriptions}

InitRegistry ==
    /\ HostInit /\ state = EmptyState
    /\ registered = <<>>
    /\ ConvIdle
    /\ ExecIdle
    /\ ServicesIdle

NextRegistry ==
    \E card \in RegCards, handle \in RemoteAgentConnections :
        /\ Len(registered) < MaxRegistrations
        /\ register_agent_card(card, handle)
        /\ registered' = Append(registered, [card |-> card, handle |-> handle])

SpecRegistry == InitRegistry /\ [][NextRegistry]_vars

(***************************************************************************)
(* Execution Loop: OrchestratorAgentExecutor.execute over the steps of     *)
(* Orchestrator.stream, with the executor's lifecycle hooks filling the    *)
(* progress queue between the steps.                                       *)
(*                                                                         *)
(* Python values are tagged with their type: a str, a dict (its items in   *)
(* insertion order, as <<key, value>> pairs) or a list.                    *)
(***************************************************************************)
MaxSteps == 2        \* steps of the agent stream in one turn

PyStr(s) == [py |-> "str", str |-> s]
PyDict(d) == [py |-> "dict", items |-> d]
PyList(l) == [py |-> "list", elems |-> l]
HasKey(d, k) == \E i \in 1..Len(d) : d[i][1] = k
Lookup(d, k) == d[CHOOSE i \in 1..Len(d) : d[i][1] = k][2]

\* "sub in s" on two Python strings
Contains(s, sub) ==
    \E i \in 1..(Len(s) - Len(sub) + 1) : SubSeq(s, i, i + Len(sub) - 1) = sub

\* json.loads(v) on the values the model uses: only a str can be parsed, and of
\* the strings only the one that is a JSON document
json_loads(v) ==
    IF v.py # "str" THEN [value |-> v, raised |-> "TypeError"]
    ELSE IF v.str = "{\"a\": 1}" THEN [value |-> PyDict(<<<<"a", PyStr("1")>>>>), raised |-> ""]
    ELSE [value |-> v, raised |-> "JSONDecodeError"]

\* os.path.isfile(v) and os.path.splitext(v)[1] in ('.png', '.jpg', '.jpeg')
ImageFiles == {"/tmp/a.png"}
isfile_image(v) == v \in ImageFiles

OrchestratorName == "orchestrator_agent"     \* ctx.agent_name
ContextId == "ctx-1"                         \* task.contextId
ToolNames == {"transfer_to_agent", "get_generator_info"}
EventAuthors == {OrchestratorName, "toutiao_agent"}       \* event.author

\* one event on the event queue of the turn
Event(type, st, final, name, parts, timestamp) ==
    [type |-> type, state |-> st, final |-> final, name |-> name, parts |-> parts,
     timestamp |-> timestamp]
TaskEvent == Event("task", "submitted", FALSE, "", <<>>, 0)
\* TaskStatusUpdateEvent(final=False, state=working, text=content, timestamp=...)
WorkingStatus(line) ==
    Event("status", "working", FALSE, "", <<[kind |-> "text", text |-> line.message]>>,
          line.timestamp)
\* updater.update_status(state, message, final=True)
update_status(st, parts) == Event("status", st, TRUE, "", parts, 0)
\* updater.add_artifact(parts, name=name)
add_artifact(parts, name) == Event("artifact", "", FALSE, name, parts, 0)
\* updater.complete()
complete == update_status("completed", <<>>)

\* the loop over contents run from the newest line to the oldest
RECURSIVE drain_reversed(_)
drain_reversed(lines) ==
    IF lines = <<>> THEN <<>>
    ELSE drain_reversed(Tail(lines)) \o <<WorkingStatus(Head(lines))>>

\* the for loop over contents: one working status update per drained line
RECURSIVE drain(_)
drain(lines) ==
    IF lines = <<>> THEN <<>>
    ELSE <<WorkingStatus(Head(lines))>> \o drain(Tail(lines))

\* _find_and_add_images.traverse: the artifacts added for the image paths found.
\* readable: whether reading the file and adding the artifact went through (a
\* failure there is caught and logged)
RECURSIVE traverse(_, _)
RECURSIVE traverse_items(_, _)
RECURSIVE traverse_elems(_, _)
traverse(obj, readable) ==
    IF obj.py = "dict" THEN traverse_items(obj.items, readable)
    ELSE IF obj.py = "list" THEN traverse_elems(obj.elems, readable)
    ELSE <<>>

traverse_items(items, readable) ==
    IF items = <<>> THEN <<>>
    ELSE LET k == Head(items)[1]
             v == Head(items)[2]
             here ==
                 IF v.py = "str" THEN
                     LET loaded == json_loads(v)
                         w == IF loaded.raised = "" THEN loaded.value ELSE v
                     IN  IF w.py \in {"dict", "list"} THEN traverse(w, readable)
                         ELSE IF w.py = "str" /\ isfile_image(w.str) /\ readable
                         THEN <<add_artifact(<<[kind |-> "file", file |-> w.str]>>, k)>>
                         ELSE <<>>
                 ELSE traverse(v, readable)
         IN  here \o traverse_items(Tail(items), readable)

traverse_elems(elems, readable) ==
    IF elems = <<>> THEN <<>>
    ELSE traverse(Head(elems), readable) \o traverse_elems(Tail(elems), readable)

\* _find_and_add_images(content, updater): "if 'response' in content" is a key test
\* on a dict and a substring test on a str, and content['response'] on a str raises
find_and_add_images(content, readable) ==
    IF content.py = "str" THEN
        IF Contains(content.str, "response")
        THEN [events |-> <<>>, raised |-> "TypeError"]
        ELSE [events |-> <<>>, raised |-> ""]
    ELSE IF HasKey(content.items, "response")
    THEN [events |-> traverse(Lookup(content.items, "response"), readable), raised |-> ""]
    ELSE [events |-> <<>>, raised |-> ""]

\* final_step that completes the task without the artifact
final_step_no_artifact(content) ==
    IF content.py = "dict"
    THEN [events |-> <<update_status("failed",
                           <<[kind |-> "text", text |-> "Reaching an unexpected state"]>>)>>,
          way |-> "break", raised |-> ""]
    ELSE [events |-> <<complete>>, way |-> "break", raised |-> ""]

\* the body of the loop for a final step: what it emits, and how it leaves the
\* iteration: "continue", "break" or "raise"
final_step(content) ==
    IF content.py = "dict" THEN
        IF /\ HasKey(content.items, "response")
           /\ HasKey(Lookup(content.items, "response").items, "result")
        THEN LET data == json_loads(Lookup(Lookup(content.items, "response").items, "result"))
             IN  IF data.raised # ""
                 THEN [events |-> <<>>, way |-> "raise", raised |-> data.raised]
                 ELSE [events |-> <<update_status("input_required",
                                        <<[kind |-> "data", data |-> data.value.items]>>)>>,
                       way |-> "continue", raised |-> ""]
        ELSE [events |-> <<update_status("failed",
                               <<[kind |-> "text", text |-> "Reaching an unexpected state"]>>)>>,
              way |-> "break", raised |-> ""]
    ELSE [events |-> <<add_artifact(<<[kind |-> "text", text |-> content.str]>>, "form"),
                       complete>>,
          way |-> "break", raised |-> ""]

\* the body of the loop after the queue was drained
loop_body(step, readable) ==
    IF ~step.is_task_complete
    THEN LET found == find_and_add_images(step.content, readable)
         IN  [events |-> found.events,
              way |-> IF found.raised = "" THEN "continue" ELSE "raise",
              raised |-> found.raised]
    ELSE final_step(step.content)

(***************************************************************************)
(* The hooks of the executor: the hook of common/callbacks.py, then the    *)
(* progress line.  What a hook records is a list of recorder writes and    *)
(* store appends in the order of its statements.                           *)
(***************************************************************************)
Write(agent, filename) ==
    [op |-> "write", agent |-> agent, filename |-> filename, tag |-> "", name |-> "",
     data |-> [py |-> "dict", value |-> ""]]
Store(agent, tag, name, data) ==
    [op |-> "append", agent |-> agent, filename |-> <<>>, tag |-> tag, name |-> name,
     data |-> data]

\* hooks that all record under one tag
Recording_one_tag(hook, agent, name, py) ==
    <<Write(agent, <<InvocationTail, hook, agent>>),
      Store(agent, "event", "event", [py |-> "dict", value |-> "event"])>>

\* hooks that record the request or response before the state snapshot
Recording_request_first(hook, agent, name, py) ==
    <<Write(agent, <<InvocationTail, hook, agent>>),
      Store(agent, hook, "llm_request", [py |-> "dict", value |-> "llm_request"]),
      Store(agent, hook, "state", [py |-> "dict", value |-> "state"])>>

Recording(hook, agent, name, py) ==
    CASE hook = "before_agent" ->
            <<Write(agent, <<InvocationTail, "BA", agent, "state">>),
              Store(agent, "before_agent", "state", [py |-> "dict", value |-> "state"])>>
      [] hook = "after_agent" ->
            <<Write(agent, <<InvocationTail, "AA", agent, "state">>),
              Store(agent, "after_agent", "state", [py |-> "dict", value |-> "state"])>>
      [] hook = "before_model" ->
            <<Write(agent, <<InvocationTail, "BM", agent, "state">>),
              Store(agent, "before_model", "state", [py |-> "dict", value |-> "state"]),
              Write(agent, <<InvocationTail, "BM", agent, "request.0">>),
              Write(agent, <<InvocationTail, "BM", agent, "request.1">>),
              Store(agent, "before_model", "llm_request",
                    [py |-> "dict", value |-> "llm_request"])>>
      [] hook = "after_model" ->
            <<Write(agent, <<InvocationTail, "AM", agent, "state">>),
              Store(agent, "after_model", "state", [py |-> "dict", value |-> "state"]),
              Write(agent, <<InvocationTail, "AM", agent, "response.0">>),
              Write(agent, <<InvocationTail, "AM", agent, "response.1">>),
              Store(agent, "after_model", "llm_response",
                    [py |-> "dict", value |-> "llm_response"])>>
      [] hook = "before_tool" ->
            <<Write(agent, <<InvocationTail, "BT", agent, name, "args">>),
              Store(agent, "before_tool", name, [py |-> "dict", value |-> "args"])>>
      [] hook = "after_tool" ->
            <<Write(agent, <<InvocationTail, "AT", agent, name, "response">>),
              Store(agent, "after_tool", name, [py |-> py, value |-> "tool_response"])>>
      [] hook = "on_event" ->
            <<Write(agent, <<InvocationTail, "E", agent>>),
              Store(agent, "event", "event", [py |-> "dict", value |-> "event"])>>

\* the number of the statement that fails, 0 for none
Faults == 0..5

\* the statements of a hook one after the other; the first failure ends the hook
RECURSIVE run_recording(_, _, _, _, _)
run_recording(ops, fs, rows, open, fault) ==
    IF ops = <<>> THEN [files |-> fs, rows |-> rows, raised |-> "", failed |-> FALSE]
    ELSE LET op == Head(ops)
         IN  IF op.op = "write" THEN
                 IF fault = 1 /\ with_record
                 THEN [files |-> fs, rows |-> rows, raised |-> "OSError", failed |-> TRUE]
                 ELSE run_recording(Tail(ops), save_json(fs, op.filename), rows, open,
                                    fault - 1)
             ELSE
                 IF fault = 1 /\ open
                 THEN [files |-> fs, rows |-> rows, raised |-> "SQLAlchemyError",
                       failed |-> TRUE]
                 ELSE LET done == append(rows, open, op.tag, op.name, op.data)
                          added == IF Len(done.rows) > Len(rows)
                                   THEN [done.rows EXCEPT ![Len(done.rows)].agent_name =
                                                              op.agent]
                                   ELSE done.rows
                      IN  IF done.raised # ""
                          THEN [files |-> fs, rows |-> rows, raised |-> done.raised,
                                failed |-> TRUE]
                          ELSE run_recording(Tail(ops), fs, added, open, fault - 1)

\* hooks of which after_model appends no line
hook_message_silent(hook, agent, name) ==
    IF hook = "after_model" THEN <<>> ELSE <<agent \o " " \o hook>>

\* the progress line of a hook, if it appends one
hook_message(hook, agent, name) ==
    CASE hook = "before_agent" -> <<agent \o " agent started">>
      [] hook = "after_agent" -> <<agent \o " agent finished">>
      [] hook = "before_model" -> <<agent \o " calls the model">>
      [] hook = "after_model" -> <<agent \o " model call finished">>
      [] hook = "before_tool" ->
            IF name = "transfer_to_agent" THEN <<agent \o " calls " \o "toutiao_agent">>
            ELSE <<agent \o " calls tool " \o name \o ", args: {}">>
      [] hook = "after_tool" ->
            IF name = "transfer_to_agent" THEN <<>>
            ELSE <<agent \o " tool " \o name \o " finished, returned: {}">>
      [] hook = "on_event" -> <<>>

\* append_message(message) for each of the lines given
append_message(queue, n, lines) ==
    IF lines = <<>> THEN queue
    ELSE Append(queue, [timestamp |-> n + 1, message |-> lines[1]])

\* A hook of the executor fires: it records, then appends its progress line.  An
\* error of the recording goes up to the framework that called the hook, and from
\* there out of the agent stream and out of execute.
fire(hook, name, py, fault, next_pc) ==
    /\ turn_pc = hook
    /\ \E rec \in {run_recording(Recording(hook, OrchestratorName, name, py), files, records,
                                 dialogue_history, fault)} :
          /\ files' = rec.files
          /\ records' = rec.rows
          /\ recording_failed' = (recording_failed \/ rec.failed)
          /\ IF rec.raised # "" THEN
                 /\ turn_error' = rec.raised
                 /\ turn_pc' = "aborted"
                 /\ UNCHANGED <<executor_messages, clock>>
             ELSE
                 /\ executor_messages' =
                        append_message(executor_messages, clock,
                                       hook_message(hook, OrchestratorName, name))
                 /\ clock' = clock + Len(hook_message(hook, OrchestratorName, name))
                 /\ turn_pc' = next_pc
                 /\ UNCHANGED turn_error
    /\ UNCHANGED <<dispatchVars, dialogue_history, registered, convVars, serviceVars,
                   event_queue, item, contents, mark, steps, sessions>>

executor_before_agent ==
    \E fault \in Faults :
        fire("before_agent", "", "dict", fault, "before_model") /\ UNCHANGED turn_tool

executor_before_model ==
    \E fault \in Faults :
        fire("before_model", "", "dict", fault, "after_model") /\ UNCHANGED turn_tool

executor_after_model ==
    \E fault \in Faults :
        fire("after_model", "", "dict", fault, "event") /\ UNCHANGED turn_tool

executor_before_tool ==
    \E name \in ToolNames, fault \in Faults :
        fire("before_tool", name, "dict", fault, "after_tool") /\ turn_tool' = name

\* the tool ran; its response is a dict or, for a tool that returns one, a list
executor_after_tool ==
    \E py \in {"dict", "list"}, fault \in Faults :
        fire("after_tool", turn_tool, py, fault, "event") /\ turn_tool' = ""

executor_after_agent ==
    \E fault \in Faults :
        fire("after_agent", "", "dict", fault, "end") /\ UNCHANGED turn_tool

(***************************************************************************)
(* The steps of the agent stream                                           *)
(***************************************************************************)
Responses ==
    {<<<<"result", PyStr("{\"a\": 1}")>>>>,
     <<<<"result", PyStr("ok")>>>>,
     <<<<"result", PyList(<<>>)>>>>,
     <<<<"status", PyStr("ok")>>>>,
     <<<<"image", PyStr("/tmp/a.png")>>>>}
\* what Orchestrator.stream yields as content: "", the text of the event, or the
\* dump of its function response
StepContents ==
    {PyStr(""), PyStr("Done"), PyStr("no response yet")}
    \cup {PyDict(<<<<"name", PyStr("get_generator_info")>>, <<"response", PyDict(r)>>>>) :
            r \in Responses}
    \cup {PyDict(<<<<"name", PyStr("get_generator_info")>>>>)}
Steps == {[is_task_complete |-> f, content |-> c] : f \in BOOLEAN, c \in StepContents}

\* execute up to the first step: the task is created unless the request has one,
\* and Orchestrator.stream opens the orchestrator and looks up or creates the session
execute_begin ==
    /\ turn_pc = "idle"
    /\ \E current_task \in BOOLEAN :
          event_queue' = IF current_task THEN event_queue ELSE Append(event_queue, TaskEvent)
    /\ dialogue_history' = TRUE
    /\ sessions' = sessions \cup {ContextId}
    /\ turn_pc' = "before_agent"
    /\ UNCHANGED <<dispatchVars, records, files, registered, convVars, serviceVars,
                   executor_messages, item, contents, mark, turn_error, steps, clock,
                   turn_tool, recording_failed>>

\* The runner produced an event: Orchestrator.stream records it with on_event and
\* yields a step; execute drains the progress queue and runs the body of its loop.
\* The last conjunct is where the runner goes on if it is asked for another step.
stream_step(stream_steps) ==
    /\ turn_pc = "event"
    /\ steps < MaxSteps
    /\ \E author \in EventAuthors :
        \E rec \in {run_recording(Recording("on_event", author, "", "dict"),
                                  files, records, dialogue_history, fault) :
                        fault \in Faults} :
          /\ files' = rec.files
          /\ records' = rec.rows
          /\ recording_failed' = (recording_failed \/ rec.failed)
          /\ IF rec.raised # "" THEN
                 /\ turn_error' = rec.raised
                 /\ turn_pc' = "aborted"
                 /\ UNCHANGED <<executor_messages, event_queue, item, contents, mark, steps>>
             ELSE
                 \E step \in stream_steps :
                   \E body \in {loop_body(step, readable) : readable \in BOOLEAN} :
                     /\ steps' = steps + 1
                     /\ item' = <<[step |-> step, author |-> author, way |-> body.way]>>
                     /\ contents' = executor_messages
                     /\ executor_messages' = <<>>
                     /\ mark' = Len(event_queue)
                     /\ event_queue' = event_queue \o drain(executor_messages) \o body.events
                     /\ turn_error' = body.raised
                     /\ IF body.way = "raise" THEN turn_pc' = "aborted"
                        ELSE IF body.way = "break" THEN turn_pc' = "done"
                        ELSE IF steps' = MaxSteps THEN turn_pc' = "after_agent"
                        ELSE turn_pc' \in {"before_model", "before_tool", "after_agent"}
    /\ UNCHANGED <<dispatchVars, dialogue_history, registered, convVars, serviceVars,
                   clock, turn_tool, sessions>>

\* the agent stream is exhausted: the async for ends and execute returns
stream_end ==
    /\ turn_pc = "end"
    /\ turn_pc' = "done"
    /\ UNCHANGED <<hostVars, registered, convVars, serviceVars, executor_messages,
                   event_queue, item,
                   contents, mark, turn_error, steps, clock, turn_tool, sessions,
                   recording_failed>>

InitExec ==
    /\ HostInit /\ cards = <<>> /\ state = EmptyState
    /\ registered = <<>>
    /\ ConvIdle
    /\ ExecIdle
    /\ ServicesIdle

NextExec ==
    \/ execute_begin
    \/ executor_before_agent
    \/ executor_before_model
    \/ executor_after_model
    \/ executor_before_tool
    \/ executor_after_tool
    \/ executor_after_agent
    \/ stream_step(Steps)
    \/ stream_end

SpecExec == InitExec /\ [][NextExec]_vars

(***************************************************************************)
(* Two turns in flight on the executor build_orchestrator_executor built.  *)
(* Each execute call has its own task, event queue and local variables;    *)
(* self._messages, the recorder and the store are the executor's and the   *)
(* process's.  One call runs at a time; at an await the event loop may go  *)
(* on with the other.  The variables of the turn are those of the running  *)
(* call, flight.suspended holds those of the other.                        *)
(***************************************************************************)
\* what the stream of such a turn yields
SharedSteps ==
    {[is_task_complete |-> FALSE, content |-> PyStr("")],
     [is_task_complete |-> TRUE, content |-> PyStr("Done")]}

\* the event loop suspends the running call and resumes the other, which has not
\* returned; the lines appended up to now and not yet attributed are the running
\* call's
switch ==
    /\ flight.suspended.turn_pc \notin {"done", "aborted"}
    /\ flight' = [current |-> IF flight.current = "task-1" THEN "task-2" ELSE "task-1",
                  owner |-> flight.owner
                            \o [n \in 1..(clock - Len(flight.owner)) |-> flight.current],
                  suspended |-> [turn_pc |-> turn_pc, event_queue |-> event_queue,
                                 item |-> item, contents |-> contents, mark |-> mark,
                                 turn_error |-> turn_error, steps |-> steps,
                                 turn_tool |-> turn_tool,
                                 recording_failed |-> recording_failed]]
    /\ turn_pc' = flight.suspended.turn_pc
    /\ event_queue' = flight.suspended.event_queue
    /\ item' = flight.suspended.item
    /\ contents' = flight.suspended.contents
    /\ mark' = flight.suspended.mark
    /\ turn_error' = flight.suspended.turn_error
    /\ steps' = flight.suspended.steps
    /\ turn_tool' = flight.suspended.turn_tool
    /\ recording_failed' = flight.suspended.recording_failed
    /\ UNCHANGED <<hostVars, registered, convVars, storeVars, recorderVars, sessionVars,
                   pollVars, executor_messages, clock, sessions>>

\* the turns of this scenario call the model once and no tool, and the recorder
\* and the store work
NextShared ==
    \/ execute_begin
    \/ fire("before_agent", "", "dict", 0, "before_model") /\ UNCHANGED turn_tool
    \/ fire("before_model", "", "dict", 0, "after_model") /\ UNCHANGED turn_tool
    \/ fire("after_model", "", "dict", 0, "event") /\ UNCHANGED turn_tool
    \/ fire("after_agent", "", "dict", 0, "end") /\ UNCHANGED turn_tool
    \/ /\ stream_step(SharedSteps)
       /\ ~recording_failed'
       /\ item'[1].author = OrchestratorName
       /\ turn_pc' \notin {"before_model", "before_tool"}
    \/ stream_end
    \/ switch

SpecShared == InitExec /\ [][NextShared]_vars

(***************************************************************************)
(* The turn with the hooks wired through build_callbacks: the forwarders   *)
(* _before_agent .. _after_tool of orchestrator_executor.py.  A forwarder  *)
(* awaits the hook of common/callbacks.py and then, the executor being     *)
(* built before the first turn, the method of the executor, which awaits   *)
(* the same hook and appends the progress line.                            *)
(***************************************************************************)
forward(hook, name, py, fault, next_pc) ==
    /\ turn_pc = hook
    /\ \E rec \in {run_recording(Recording(hook, OrchestratorName, name, py)
                                    \o Recording(hook, OrchestratorName, name, py),
                                 files, records, dialogue_history, fault)} :
          /\ files' = rec.files
          /\ records' = rec.rows
          /\ recording_failed' = (recording_failed \/ rec.failed)
          /\ IF rec.raised # "" THEN
                 /\ turn_error' = rec.raised
                 /\ turn_pc' = "aborted"
                 /\ UNCHANGED <<executor_messages, clock>>
             ELSE
                 /\ executor_messages' =
                        append_message(executor_messages, clock,
                                       hook_message(hook, OrchestratorName, name))
                 /\ clock' = clock + Len(hook_message(hook, OrchestratorName, name))
                 /\ turn_pc' = next_pc
                 /\ UNCHANGED turn_error
    /\ UNCHANGED <<dispatchVars, dialogue_history, registered, convVars, serviceVars,
                   event_queue, item, contents, mark, steps, sessions>>

\* _before_agent, _before_model, _after_model, _before_tool, _after_tool, _after_agent
forwarders ==
    \E fault \in Faults :
        \/ forward("before_agent", "", "dict", fault, "before_model") /\ UNCHANGED turn_tool
        \/ forward("before_model", "", "dict", fault, "after_model") /\ UNCHANGED turn_tool
        \/ forward("after_model", "", "dict", fault, "event") /\ UNCHANGED turn_tool
        \/ \E name \in ToolNames :
              forward("before_tool", name, "dict", fault, "after_tool") /\ turn_tool' = name
        \/ \E py \in {"dict", "list"} :
              forward("after_tool", turn_tool, py, fault, "event") /\ turn_tool' = ""
        \/ forward("after_agent", "", "dict", fault, "end") /\ UNCHANGED turn_tool

NextForward ==
    \/ execute_begin
    \/ forwarders
    \/ stream_step(Steps)
    \/ stream_end

SpecForward == InitExec /\ [][NextForward]_vars

(***************************************************************************)
(* Dialogue Store (common/dialogue_history.py): the table of               *)
(* DialogueRecords behind the hooks.  The data column holds the JSON text  *)
(* of the record's data, or NULL.  An append is two steps, the insert      *)
(* added to a session of its own and the awaited commit, so that appends   *)
(* of different invocations interleave.                                    *)
(***************************************************************************)
MaxAppends == 2      \* records handed to append in one behaviour
DefaultLimit == 100

PyNone == [py |-> "None"]
PySet(S) == [py |-> "set", members |-> S]
PyTuple(l) == [py |-> "tuple", elems |-> l]
PyBytes(b) == [py |-> "bytes", bytes |-> b]

\* the orders in which list(obj) can enumerate a set
Orderings(S) ==
    {o \in [1..Cardinality(S) -> S] : \A m \in S : \E i \in 1..Len(o) : o[i] = m}

\* json.dumps(value, cls=CustomJSONEncoder, ensure_ascii=False): the texts it can
\* yield, none when it raises TypeError
RECURSIVE dumps(_)
RECURSIVE dumps_elems(_)
RECURSIVE dumps_items(_)
dumps(v) ==
    CASE v.py = "str" -> {"\"" \o v.str \o "\""}
      [] v.py \in {"list", "tuple"} -> {"[" \o t \o "]" : t \in dumps_elems(v.elems)}
      [] v.py = "set" ->
            {"[" \o t \o "]" : t \in UNION {dumps_elems(o) : o \in Orderings(v.members)}}
      [] v.py = "dict" -> {"{" \o t \o "}" : t \in dumps_items(v.items)}
      [] OTHER -> {}

dumps_elems(l) ==
    IF l = <<>> THEN {""}
    ELSE IF Len(l) = 1 THEN dumps(l[1])
    ELSE {a \o ", " \o b : a \in dumps(l[1]), b \in dumps_elems(Tail(l))}

dumps_items(items) ==
    IF items = <<>> THEN {""}
    ELSE LET here == {"\"" \o items[1][1] \o "\": " \o a : a \in dumps(items[1][2])}
         IN  IF Len(items) = 1 THEN here
             ELSE {a \o ", " \o b : a \in here, b \in dumps_items(Tail(items))}

\* JSONEncodedDict.process_bind_param: what the column can get for a value
process_bind_param(value) ==
    IF value = PyNone THEN {[value |-> NULL, raised |-> ""]}
    ELSE IF dumps(value) = {} THEN {[value |-> NULL, raised |-> "TypeError"]}
    ELSE {[value |-> t, raised |-> ""] : t \in dumps(value)}

\* json.loads(value) on a text that dumps wrote: the value read and the text left
Drop(t, n) == SubSeq(t, n + 1, Len(t))
RECURSIVE loads(_)
RECURSIVE loads_elems(_, _)
RECURSIVE loads_items(_, _)
loads_string(t) ==
    LET j == CHOOSE j \in 2..Len(t) :
                 SubSeq(t, j, j) = "\"" /\ \A k \in 2..(j - 1) : SubSeq(t, k, k) # "\""
    IN  [value |-> SubSeq(t, 2, j - 1), rest |-> Drop(t, j)]

loads(t) ==
    LET c == SubSeq(t, 1, 1)
    IN  IF c = "\"" THEN LET s == loads_string(t) IN [value |-> PyStr(s.value), rest |-> s.rest]
        ELSE IF c = "[" THEN
            IF SubSeq(t, 2, 2) = "]" THEN [value |-> PyList(<<>>), rest |-> Drop(t, 2)]
            ELSE loads_elems(Drop(t, 1), <<>>)
        ELSE IF SubSeq(t, 2, 2) = "}" THEN [value |-> PyDict(<<>>), rest |-> Drop(t, 2)]
             ELSE loads_items(Drop(t, 1), <<>>)

loads_elems(t, acc) ==
    LET r == loads(t)
    IN  IF SubSeq(r.rest, 1, 1) = "]"
        THEN [value |-> PyList(Append(acc, r.value)), rest |-> Drop(r.rest, 1)]
        ELSE loads_elems(Drop(r.rest, 2), Append(acc, r.value))

loads_items(t, acc) ==
    LET k == loads_string(t)
        r == loads(Drop(k.rest, 2))
        pair == <<k.value, r.value>>
    IN  IF SubSeq(r.rest, 1, 1) = "}"
        THEN [value |-> PyDict(Append(acc, pair)), rest |-> Drop(r.rest, 1)]
        ELSE loads_items(Drop(r.rest, 2), Append(acc, pair))

\* JSONEncodedDict.process_result_value
process_result_value(value) == IF value = NULL THEN PyNone ELSE loads(value).value

\* DialogueRecord.model_validate(row)
model_validate(row) == [row EXCEPT !.data = process_result_value(row.data)]

\* an insert that writes over the newest row
insert_over(rows, row) ==
    IF rows = <<>> THEN <<[row EXCEPT !.id = 1]>>
    ELSE [rows EXCEPT ![Len(rows)] = [row EXCEPT !.id = Len(rows)]]

\* the INSERT of session.commit(): the autoincrement key gives the row its id
insert(rows, row) ==
    LET ids == {rows[i].id : i \in 1..Len(rows)}
        top == IF ids = {} THEN 0 ELSE CHOOSE m \in ids : \A n \in ids : n <= m
    IN  Append(rows, [row EXCEPT !.id = top + 1])

\* get_by_id that hands out the newest row
get_by_id_newest(rows, record_id) ==
    IF rows = <<>> THEN <<>> ELSE <<model_validate(rows[Len(rows)])>>

\* get_by_id(record_id): the record, or nothing
get_by_id(rows, record_id) ==
    LET hits == {i \in 1..Len(rows) : rows[i].id = record_id}
    IN  IF hits = {} THEN <<>> ELSE <<model_validate(rows[CHOOSE i \in hits : TRUE])>>

\* get_by_invocation_id(invocation_id).  scalar_one_or_none() is called on the
\* result twice: the call in the condition raises when the query has several rows
\* and otherwise takes the row, if any, and closes the result; the call in the
\* argument of model_validate then reads a closed result.
get_by_invocation_id(rows, invocation_id) ==
    LET hits == {i \in 1..Len(rows) : rows[i].invocation_id = invocation_id}
    IN  IF hits = {} THEN [found |-> <<>>, raised |-> ""]
        ELSE IF Cardinality(hits) > 1
             THEN [found |-> <<>>, raised |-> "MultipleResultsFound"]
             ELSE [found |-> <<>>, raised |-> "ResourceClosedError"]

\* lower() of the database on the letters the model uses
RECURSIVE lower(_)
lower(s) ==
    IF s = "" THEN ""
    ELSE LET c == SubSeq(s, 1, 1)
         IN  (CASE c = "C" -> "c" [] c = "A" -> "a" [] c = "T" -> "t" [] OTHER -> c)
             \o lower(Drop(s, 1))

\* SQL LIKE: % stands for any run of characters and _ for any one character
RECURSIVE like(_, _)
like(s, p) ==
    IF p = "" THEN s = ""
    ELSE IF SubSeq(p, 1, 1) = "%" THEN like(s, Drop(p, 1)) \/ (s # "" /\ like(Drop(s, 1), p))
    ELSE /\ s # ""
         /\ SubSeq(p, 1, 1) = "_" \/ SubSeq(p, 1, 1) = SubSeq(s, 1, 1)
         /\ like(Drop(s, 1), Drop(p, 1))

ilike(s, p) == like(lower(s), lower(p))

\* order_by(DBRecord.timestamp.desc()) over the rows at the positions S
RECURSIVE newest_first(_, _)
newest_first(rows, S) ==
    IF S = {} THEN <<>>
    ELSE LET i == CHOOSE i \in S : \A j \in S : rows[j].timestamp <= rows[i].timestamp
         IN  <<model_validate(rows[i])>> \o newest_first(rows, S \ {i})

\* search_by_keyword(keyword, limit); a NULL data matches no pattern
search_by_keyword(rows, keyword, limit) ==
    LET pattern == "%" \o keyword \o "%"
        hits == {i \in 1..Len(rows) :
                    \/ ilike(rows[i].name, pattern)
                    \/ rows[i].data # NULL /\ ilike(rows[i].data, pattern)}
        all == newest_first(rows, hits)
    IN  SubSeq(all, 1, IF Len(all) < limit THEN Len(all) ELSE limit)

\* what the hooks hand to append: tag, name and data
StoreRecords ==
    {[tag |-> "before_tool", name |-> "cat", data |-> PyNone],
     [tag |-> "event", name |-> "event",
      data |-> PyDict(<<<<"meta", PyDict(<<<<"title", PyStr("Cat")>>>>)>>,
                        <<"ids", PySet({PyStr("x"), PyStr("y")})>>>>)],
     [tag |-> "after_tool", name |-> "dog",
      data |-> PyDict(<<<<"pair", PyTuple(<<PyStr("x"), PyStr("y")>>)>>>>)],
     [tag |-> "before_model", name |-> "llm_request",
      data |-> PyDict(<<<<"raw", PyBytes("QQ==")>>>>)]}
Searches == {<<k, DefaultLimit>> : k \in {"cat", "c_t", "title"}} \cup {<<"cat", 1>>}

StoreResult(op, id, keyword, limit, found, raised) ==
    [op |-> op, id |-> id, keyword |-> keyword, limit |-> limit, found |-> found,
     raised |-> raised]

\* append up to the await: the DBRecord is built from the record and added to a
\* session of this call
append_add ==
    \E inv \in Invocations, rec \in StoreRecords :
        /\ db_clock < MaxAppends
        /\ db_pending[inv] = <<>>
        /\ db_clock' = db_clock + 1
        /\ db_pending' = [db_pending EXCEPT ![inv] =
                              <<[id |-> 0, timestamp |-> db_clock + 1, invocation_id |-> inv,
                                 tag |-> rec.tag, name |-> rec.name, data |-> rec.data]>>]
        /\ db_result' = StoreResult("append", 0, "", 0, <<>>, "")
        /\ UNCHANGED <<db_rows, db_log, outsideStore>>

\* await session.commit() and return db_record.id; data that json.dumps cannot
\* encode makes the flush raise, and nothing is stored
append_commit ==
    \E inv \in Invocations :
        /\ db_pending[inv] # <<>>
        /\ \E bound \in process_bind_param(db_pending[inv][1].data) :
              IF bound.raised # "" THEN
                  /\ db_result' = StoreResult("append", 0, "", 0, <<>>, bound.raised)
                  /\ UNCHANGED <<db_rows, db_log>>
              ELSE
                  /\ db_rows' = insert(db_rows, [db_pending[inv][1] EXCEPT !.data = bound.value])
                  /\ db_log' = Append(db_log, [id |-> db_rows'[Len(db_rows')].id,
                                               record |-> db_pending[inv][1]])
                  /\ db_result' = StoreResult("append", db_rows'[Len(db_rows')].id, "", 0,
                                              <<>>, "")
        /\ db_pending' = [db_pending EXCEPT ![inv] = <<>>]
        /\ UNCHANGED <<db_clock, outsideStore>>

call_get_by_id ==
    \E record_id \in 1..(MaxAppends + 1) :
        /\ db_result' = StoreResult("get_by_id", record_id, "", 0,
                                    get_by_id(db_rows, record_id), "")
        /\ UNCHANGED <<db_rows, db_pending, db_log, db_clock, outsideStore>>

call_search_by_keyword ==
    \E search \in Searches :
        /\ db_result' = StoreResult("search_by_keyword", 0, search[1], search[2],
                                    search_by_keyword(db_rows, search[1], search[2]), "")
        /\ UNCHANGED <<db_rows, db_pending, db_log, db_clock, outsideStore>>

NextStore ==
    \/ append_add
    \/ append_commit
    \/ call_get_by_id
    \/ call_search_by_keyword

SpecStore == InitExec /\ [][NextStore]_vars

\* the store queried by invocation id; keyword holds the id asked for
call_get_by_invocation_id ==
    \E inv \in Invocations :
        \E got \in {get_by_invocation_id(db_rows, inv)} :
            /\ db_result' = StoreResult("get_by_invocation_id", 0, inv, 0, got.found,
                                        got.raised)
            /\ UNCHANGED <<db_rows, db_pending, db_log, db_clock, outsideStore>>

NextInvocation ==
    \/ append_add
    \/ append_commit
    \/ call_get_by_invocation_id

SpecInvocation == InitExec /\ [][NextInvocation]_vars

(***************************************************************************)
(* Recorder (common/recorder.py): the names of the files it writes.  The   *)
(* formatted time has the resolution of a millisecond; now counts them.    *)
(***************************************************************************)
MaxFilenames == 64   \* make_filename calls in one behaviour
MaxMillis == 2       \* milliseconds the calls are spread over

tags == "0123456789ABCDEFGHIJKLMNOPQRSTUVWXYZabcdefghijklmnopqrstuvwxyz"
max == Len(tags)

\* an index that stays at the first tag
rotate_stuck(i, formatted_time, last_time) == 0

\* an index that goes on through the change of the millisecond
rotate_on(i, formatted_time, last_time) == (i + 1) % max

\* the index make_filename goes on with
rotate(i, formatted_time, last_time) ==
    IF last_time = formatted_time THEN (i + 1) % max ELSE 0

\* make_filename(filename) at the millisecond now
make_filename ==
    \E filename \in {"state.json"} :
        /\ Len(filenames) < MaxFilenames
        /\ idx' = rotate(idx, now, last_formatted_time)
        /\ last_formatted_time' = now
        /\ filenames' = Append(filenames,
                               [formatted_time |-> now,
                                full_name |-> ToString(now) \o "." \o SubSeq(tags, idx' + 1, idx' + 1)
                                              \o "-" \o filename])
        /\ UNCHANGED <<now, outsideRecorder>>

\* the clock reaches the next millisecond
tick ==
    /\ now < MaxMillis
    /\ now' = now + 1
    /\ UNCHANGED <<idx, last_formatted_time, filenames, outsideRecorder>>

NextRecorder == make_filename \/ tick

SpecRecorder == InitExec /\ [][NextRecorder]_vars

(***************************************************************************)
(* Sessions (orchestrator/orchestrator.py): the stream calls of several    *)
(* turns on one Orchestrator.  A call runs up to its next await that       *)
(* suspends: the awaits inside open() on the first use, and the events of  *)
(* run_async.  get_session and create_session of the in-memory service    *)
(* run without suspending.                                                 *)
(***************************************************************************)
DefaultState == [author |-> "leon", events |-> 0]

\* get_session, and create_session if it found none, on the session service of
\* _runner; then run_async is entered with that runner
get_or_create_session(t, session_id, svc, held) ==
    /\ IF \E ses \in held[svc] : ses.id = session_id
       THEN /\ services' = held
            /\ UNCHANGED creations
       ELSE /\ services' = [held EXCEPT ![svc] =
                                @ \cup {[id |-> session_id, state |-> DefaultState]}]
            /\ creations' = Append(creations, [turn |-> t, session_id |-> session_id,
                                               service |-> svc])
    /\ turns' = [turns EXCEPT ![t] = [pc |-> "running", session_id |-> session_id,
                                      runner |-> svc]]

\* stream(query, session_id) up to its first suspension: open() returns at once if
\* the agent is built, else it waits inside initialize_callbacks and build_agent
stream_call ==
    \E t \in 1..MaxTurns, session_id \in {"ctx-1", "ctx-2"} :
        /\ turns[t].pc = "idle"
        /\ IF orch_agent
           THEN get_or_create_session(t, session_id, runner, services)
           ELSE /\ turns' = [turns EXCEPT ![t] = [pc |-> "opening", session_id |-> session_id,
                                                  runner |-> 0]]
                /\ UNCHANGED <<services, creations>>
        /\ UNCHANGED <<orch_agent, runner, outsideSessions>>

\* build_agent returned: open() sets agent and builds a Runner with an
\* InMemorySessionService of its own; stream goes on with that runner
open_done ==
    \E t \in 1..MaxTurns :
        /\ turns[t].pc = "opening"
        /\ orch_agent' = TRUE
        /\ runner' = Len(services) + 1
        /\ get_or_create_session(t, turns[t].session_id, Len(services) + 1,
                                 Append(services, {}))
        /\ UNCHANGED outsideSessions

\* run_async yields an event: the runner appended it to the session of the turn
run_async_event ==
    \E t \in 1..MaxTurns :
        /\ turns[t].pc = "running"
        /\ services' = [services EXCEPT ![turns[t].runner] =
                           {IF ses.id = turns[t].session_id
                            THEN [ses EXCEPT !.state.events = 1]
                            ELSE ses : ses \in @}]
        /\ turns' = [turns EXCEPT ![t].pc = "done"]
        /\ UNCHANGED <<orch_agent, runner, creations, outsideSessions>>

NextSessions ==
    \/ stream_call
    \/ open_done
    \/ run_async_event

SpecSessions == InitExec /\ [][NextSessions]_vars

(***************************************************************************)
(* Video job poll loop (mcps/video-service/video_model.py).  The task was  *)
(* created; _poll_task_status asks the service for its status until it can *)
(* return or raise.  An answer carries the status and the video URL, if    *)
(* any, under result or, as in the sample of the succeeded answer, under   *)
(* content.  seen keeps the latest MaxSeen answers.                        *)
(***************************************************************************)
MaxSeen == 3         \* answers kept in seen
retry_interval == 5

\* the task goes its way at the service: queued, running, then one final answer
job_advance ==
    /\ \/ job.status = "queued" /\ job' = [job EXCEPT !.status = "running"]
       \/ /\ job.status \in {"queued", "running"}
          /\ job' \in {[status |-> "succeeded", result |-> "https://tos/video.mp4",
                        content |-> ""],
                       [status |-> "succeeded", result |-> "",
                        content |-> "https://tos/video.mp4"],
                       [status |-> "succeeded", result |-> "", content |-> ""],
                       [status |-> "failed", result |-> "", content |-> ""],
                       [status |-> "expired", result |-> "", content |-> ""]}
    /\ UNCHANGED <<poll_pc, seen, poll_out, outsidePoll>>

\* one pass of the while loop up to its return, raise or sleep; ok: the GET came
\* back with a success status
poll_task_status ==
    /\ poll_pc = "poll"
    /\ \E ok \in BOOLEAN :
          IF ~ok THEN
              /\ poll_pc' = "raised"
              /\ poll_out' = [video_url |-> "", raised |-> "HTTPStatusError"]
              /\ UNCHANGED seen
          ELSE
              /\ seen' = (IF Len(seen) < MaxSeen THEN seen ELSE Tail(seen))
                         \o <<[answer |-> job, slept |-> 0]>>
              /\ IF job.status = "succeeded" THEN
                     IF job.result # ""
                     THEN poll_pc' = "returned"
                          /\ poll_out' = [video_url |-> job.result, raised |-> ""]
                     ELSE poll_pc' = "raised"
                          /\ poll_out' = [video_url |-> "", raised |-> "ValueError"]
                 ELSE IF job.status \in {"queued", "running"}
                 THEN poll_pc' = "sleep" /\ UNCHANGED poll_out
                 ELSE poll_pc' = "raised"
                      /\ poll_out' = [video_url |-> "", raised |-> "RuntimeError"]
    /\ UNCHANGED <<job, outsidePoll>>

\* await asyncio.sleep(retry_interval) is over
poll_sleep ==
    /\ poll_pc = "sleep"
    /\ seen' = [seen EXCEPT ![Len(seen)].slept = retry_interval]
    /\ poll_pc' = "poll"
    /\ UNCHANGED <<job, poll_out, outsidePoll>>

NextPoll ==
    \/ job_advance
    \/ poll_task_status
    \/ poll_sleep

\* the event loop resumes the coroutine when the GET answers and when the sleep is
\* over
SpecPoll ==
    InitExec /\ [][NextPoll]_vars /\ WF_vars(poll_task_status) /\ WF_vars(poll_sleep)

(***************************************************************************)
(* Properties of the dispatcher.  They are stated on the state right after *)
(* send_message ended, before any later hook touches the session.          *)
(***************************************************************************)
Dispatched == pc \in {"returned", "raised"} /\ tool.name = "send_message"
GotTask == Dispatched /\ response # <<>> /\ response[1].type = "Task"
TheTask == response[1]

\* C1: if the previous dispatch of the session returned a task in state
\* input_required, the request of this dispatch carries the task id of that task,
\* its context id (the one the previous request carried when the task named none)
\* and the message id of the previous request.
C1_ContinuationReused ==
    (Dispatched /\ request # <<>> /\ prev.task # <<>>
        /\ prev.task[1].state = "input_required")
    => /\ request[1].message.taskId = prev.task[1].id
       /\ request[1].message.contextId =
             (IF prev.task[1].contextId # None THEN prev.task[1].contextId
              ELSE prev.request[1].message.contextId)
       /\ request[1].message.messageId = prev.request[1].message.messageId

\* C2: a task in state input_required makes send_message return without an error,
\* with skip_summarization and escalate set, and the session state then holds the
\* task's id and, when the task names one, its context id.
C2_InputRequired ==
    (GotTask /\ TheTask.status.state = "input_required")
    => /\ outcome = "returned"
       /\ actions.skip_summarization /\ actions.escalate
       /\ Has(state, "task_id") /\ state["task_id"] = TheTask.id
       /\ TheTask.contextId # None
            => Has(state, "context_id") /\ state["context_id"] = TheTask.contextId

C2_Witness ==
    /\ GotTask /\ TheTask.status.state = "input_required"
    /\ outcome = "returned"
    /\ Get(pre, "task_id") = "t1" /\ Get(pre, "context_id") = "c1"
    /\ state["task_id"] = "t2" /\ state["context_id"] = "c2"

\* C3: with a task as the answer, send_message raises RemoteTaskCanceled exactly
\* when the task is canceled and RemoteTaskFailed exactly when it failed.
C3_RemoteFailures ==
    GotTask
    => /\ outcome = "RemoteTaskCanceled" <=> TheTask.status.state = "canceled"
       /\ outcome = "RemoteTaskFailed" <=> TheTask.status.state = "failed"

C3_Witness ==
    /\ GotTask /\ TheTask.status.state = "canceled"
    /\ pc = "raised" /\ outcome = "RemoteTaskCanceled"

\* C4: after every dispatch that received a task, raised or not, the session
\* state has agent = the name dispatched to, task_id = the task's id, context_id =
\* the task's context id when it names one, and session_active true exactly for
\* the states submitted, working and input_required.
C4_StateAfterTask ==
    GotTask
    => /\ Get(state, "agent") = tool.args.agent_name
       /\ Get(state, "task_id") = TheTask.id
       /\ TheTask.contextId # None => Get(state, "context_id") = TheTask.contextId
       /\ Has(state, "session_active")
       /\ state["session_active"] <=>
             TheTask.status.state \in {"submitted", "working", "input_required"}

C4_Witness ==
    /\ GotTask /\ TheTask.status.state = "unknown" /\ TheTask.contextId = None
    /\ pre["session_active"] /\ ~state["session_active"]
    /\ Get(pre, "task_id") = "t2" /\ state["task_id"] = "t1"

\* What a payload must look like, said without the converter: the Parts of the
\* status message, then of each artifact in turn, each as the value its kind stands for.
RECURSIVE PartsOfArtifacts(_)
PartsOfArtifacts(as) ==
    IF as = <<>> THEN <<>> ELSE Head(as).parts \o PartsOfArtifacts(Tail(as))
PartsInOrder(task) ==
    (IF task.status.message = <<>> THEN <<>> ELSE task.status.message[1].parts)
        \o PartsOfArtifacts(task.artifacts)
ValueOf(part) ==
    CASE part.kind = "text" -> [str |-> part.text]
      [] part.kind = "data" -> [dict |-> part.data]
      [] part.kind = "file" -> [DataPart |-> [artifact_file_id |-> part.file.name]]
IsPayloadOf(rval, task) ==
    /\ Len(rval) = Len(PartsInOrder(task))
    /\ \A i \in 1..Len(rval) : rval[i] = ValueOf(PartsInOrder(task)[i])
SignalSet == actions.skip_summarization /\ actions.escalate

\* C5 as claimed: a task in state input_required yields the needs-input signal
\* and no result payload.
C5_SignalOnly ==
    (GotTask /\ TheTask.status.state = "input_required")
    => SignalSet /\ result = <<>>

\* C5 as amended: a task in state input_required yields the needs-input signal
\* together with the payload built from its status message and artifacts; the
\* fatal outcomes (canceled, failed) raise and yield no payload.
C5_SignalAndPayload ==
    GotTask
    => /\ TheTask.status.state = "input_required"
            => outcome = "returned" /\ SignalSet /\ IsPayloadOf(result, TheTask)
       /\ TheTask.status.state \in {"canceled", "failed"}
            => pc = "raised" /\ result = <<>>

C5_Witness ==
    /\ GotTask /\ TheTask.status.state = "input_required"
    /\ TheTask.status.message # <<>> /\ Len(TheTask.artifacts) = 2
    /\ SignalSet /\ Len(result) = 3

\* C6: for a task in state completed, working, submitted or unknown the result is
\* the converted Parts of the status message followed by the converted Parts of
\* each artifact, artifacts and Parts in their given order.
C6_ResultOrder ==
    (GotTask /\ TheTask.status.state \in {"completed", "working", "submitted", "unknown"})
    => outcome = "returned" /\ IsPayloadOf(result, TheTask)

C6_Witness ==
    /\ GotTask /\ TheTask.status.state = "completed"
    /\ TheTask.status.message # <<>> /\ Len(TheTask.artifacts) = 2
    /\ TheTask.status.message[1].parts = <<[kind |-> "data", data |-> "{a:1}"]>>
    /\ Len(TheTask.artifacts[1].parts) = 1 /\ TheTask.artifacts[1].parts[1].kind = "file"
    /\ Len(TheTask.artifacts[2].parts) = 1 /\ TheTask.artifacts[2].parts[1].kind = "text"
    /\ result = <<[dict |-> "{a:1}"], [DataPart |-> [artifact_file_id |-> "f.png"]],
                  [str |-> "hello"]>>

\* C7: a plain Message as the answer makes send_message return the converted Parts
\* of that Message and leaves agent, task_id, context_id and session_active of the
\* session state as they were before the call.
StateMachineKeys == {"agent", "task_id", "context_id", "session_active"}
C7_PlainMessage ==
    (Dispatched /\ response # <<>> /\ response[1].type = "Message")
    => /\ outcome = "returned"
       /\ Len(result) = Len(response[1].parts)
       /\ \A i \in 1..Len(result) : result[i] = ValueOf(response[1].parts[i])
       /\ \A k \in StateMachineKeys :
             (Has(state, k) <=> Has(pre, k)) /\ (Has(state, k) => state[k] = pre[k])

\* C8 as claimed: a dispatch to a name that is not registered fails with
\* UnknownAgent and the tool call has appended no DialogueRecord.
Unregistered == tool.args.agent_name \notin DOMAIN remote_agent_connections
C8_NoRecord ==
    (Dispatched /\ Unregistered)
    => outcome = "UnknownAgent" /\ Len(records) = rows_before

\* C8 as amended: a dispatch to a name that is not registered fails with
\* UnknownAgent, sends no request and appends no DialogueRecord itself; the only
\* row of the tool call is the one the before_tool hook appended before the tool
\* ran, present exactly when the store is initialised.
C8_OnlyBeforeToolRecord ==
    (Dispatched /\ Unregistered)
    => /\ outcome = "UnknownAgent" /\ pc = "raised"
       /\ request = <<>>
       /\ Len(records) = rows_before + (IF dialogue_history THEN 1 ELSE 0)
       /\ dialogue_history
            => /\ records[Len(records)].tag = "before_tool"
               /\ records[Len(records)].name = "send_message"
               /\ records[Len(records)].data = tool.args

C8_Witness ==
    /\ Dispatched /\ Unregistered /\ tool.args.agent_name = "ghost"
    /\ outcome = "UnknownAgent" /\ dialogue_history
    /\ Len(records) = rows_before + 1

\* C9: send_message fails with UnknownAgent exactly when the name is not in the
\* registry and with ClientUnavailable exactly when the name is registered with a
\* null handle, and in both cases it sends no request.
C9_Resolve ==
    Dispatched
    => /\ outcome = "UnknownAgent" <=> Unregistered
       /\ outcome = "ClientUnavailable"
            <=> (~Unregistered /\ remote_agent_connections[tool.args.agent_name] = NULL)
       /\ outcome \in {"UnknownAgent", "ClientUnavailable"}
            => request = <<>> /\ response = <<>>

C9_Witness ==
    /\ Dispatched /\ outcome = "ClientUnavailable" /\ request = <<>>
    /\ remote_agent_connections["alpha"] = NULL

\* C10: send_message either returns or raises one of UnknownAgent,
\* ClientUnavailable, RemoteTaskCanceled, RemoteTaskFailed.
C10_OnlyDispatchFailures ==
    Dispatched
    => outcome \in {"returned", "UnknownAgent", "ClientUnavailable",
                    "RemoteTaskCanceled", "RemoteTaskFailed"}

(***************************************************************************)
(* Properties of the Part Converter, on the state right after the call     *)
(***************************************************************************)
KnownKinds == {"text", "data", "file"}
Reference(part) == [DataPart |-> [artifact_file_id |-> part.file.name]]
SavedEntry(part) ==
    [filename |-> part.file.name,
     artifact |-> [inline_data |-> [mime_type |-> part.file.mimeType,
                                    data |-> b64decode(part.file.bytes)]]]
RECURSIVE FilesOf(_)
FilesOf(parts) ==
    IF parts = <<>> THEN <<>>
    ELSE (IF Head(parts).kind = "file" THEN <<SavedEntry(Head(parts))>> ELSE <<>>)
         \o FilesOf(Tail(parts))

\* C11: convert_parts keeps length and order: for a list of text, data and file
\* Parts it returns a list of the same length whose i-th element is what
\* convert_part yields for the i-th Part.
C11_OrderAndLength ==
    (conv_pc = "many" /\ \A i \in 1..Len(conv_parts) : conv_parts[i].kind \in KnownKinds)
    => /\ conv_out.raised = ""
       /\ Len(conv_out.rval) = Len(conv_parts)
       /\ \A i \in 1..Len(conv_parts) :
             conv_out.rval[i] = convert_part(conv_parts[i], NewToolContext).rval

C11_Witness ==
    /\ conv_pc = "many"
    /\ Len(conv_parts) = 3
    /\ conv_parts[1].kind = "text" /\ conv_parts[2].kind = "file" /\ conv_parts[3].kind = "data"
    /\ conv_out.rval = <<[str |-> "hello"], [DataPart |-> [artifact_file_id |-> "g.png"]],
                         [dict |-> "{a:1}"]>>

\* C12: converting a file Part returns only the reference {artifact-file-id: name},
\* never the bytes; the decoded bytes are handed to save_artifact under the file's
\* name, once; and the two action flags are set, once for each file converted.
C12_FileReference ==
    /\ (conv_pc = "one" /\ conv_parts[1].kind = "file")
       => /\ conv_out.raised = ""
          /\ conv_out.rval = Reference(conv_parts[1])
          /\ conv_out.ctx.saved = Append(conv_ctx.saved, SavedEntry(conv_parts[1]))
          /\ conv_out.ctx.signals = conv_ctx.signals + 1
          /\ conv_out.ctx.actions = [skip_summarization |-> TRUE, escalate |-> TRUE]
    /\ (conv_pc = "many" /\ conv_out.raised = "")
       => /\ conv_out.ctx.saved = conv_ctx.saved \o FilesOf(conv_parts)
          /\ conv_out.ctx.signals = conv_ctx.signals + Len(FilesOf(conv_parts))
          /\ \A i \in 1..Len(conv_parts) :
                conv_parts[i].kind = "file" => conv_out.rval[i] = Reference(conv_parts[i])

C12_Witness ==
    /\ conv_pc = "one"
    /\ conv_parts[1].kind = "file" /\ conv_parts[1].file.bytes = "Qg=="
    /\ conv_ctx.signals = 1 /\ conv_out.ctx.signals = 2
    /\ conv_out.rval = [DataPart |-> [artifact_file_id |-> "f.png"]]
    /\ conv_out.ctx.saved[2].artifact.inline_data.data = "B"

\* C13: convert_part on a Part whose kind is none of text, data, file returns the
\* string 'Unknown type: <kind>' and raises nothing.
C13_UnknownKind ==
    (conv_pc = "one" /\ conv_parts[1].kind \notin KnownKinds)
    => /\ conv_out.raised = ""
       /\ conv_out.rval = [str |-> "Unknown type: " \o conv_parts[1].kind]

(***************************************************************************)
(* Properties of the registry                                              *)
(***************************************************************************)
CallsFor(n) == {i \in 1..Len(registered) : registered[i].card.name = n}
LastCallFor(n) == registered[CHOOSE i \in CallsFor(n) : \A j \in CallsFor(n) : j <= i]

\* C14: however often a name was registered, the card map holds exactly one card
\* of that name, the client map one handle and the listing one line, and all three
\* are those of the latest register_agent_card call for the name.
C14_Upsert ==
    \A n \in RegNames :
        CallsFor(n) # {} =>
            /\ Cardinality({i \in 1..Len(cards) : cards[i].name = n}) = 1
            /\ \A i \in 1..Len(cards) : cards[i].name = n => cards[i] = LastCallFor(n).card
            /\ n \in DOMAIN remote_agent_connections
            /\ remote_agent_connections[n] = LastCallFor(n).handle
            /\ Cardinality({i \in 1..Len(agents) : agents[i].name = n}) = 1
            /\ \A i \in 1..Len(agents) :
                  agents[i].name = n =>
                      agents[i].description = LastCallFor(n).card.description

C14_Witness ==
    /\ Len(registered) = 2
    /\ registered[1].card = [name |-> "alpha", description |-> "d1"]
    /\ registered[2].card = [name |-> "alpha", description |-> "d2"]
    /\ cards = <<[name |-> "alpha", description |-> "d2"]>>
    /\ agents = <<[name |-> "alpha", description |-> "d2"]>>

(***************************************************************************)
(* Properties of the Execution Loop.  Handled holds from the moment        *)
(* execute handled a step; Emitted is what the body of the loop enqueued   *)
(* for that step, after the drained lines.                                 *)
(***************************************************************************)
Handled == item # <<>>
TheStep == item[1].step
Emitted == SubSeq(event_queue, mark + Len(contents) + 1, Len(event_queue))
IsFormArtifact(e) == e.type = "artifact" /\ e.name = "form"
HasResult(content) ==
    /\ content.py = "dict"
    /\ HasKey(content.items, "response")
    /\ HasKey(Lookup(content.items, "response").items, "result")

\* C15: a final step is classified by the shape of its content: a mapping with
\* response.result ends as input_required carrying the parsed value of that field,
\* any other mapping ends as failed, a plain string ends as completed; whatever the
\* final step, one of the three final statuses is the last thing emitted for it.
C15_Classification ==
    (Handled /\ TheStep.is_task_complete)
    => /\ turn_error = ""
       /\ Emitted # <<>>
       /\ LET closing == Emitted[Len(Emitted)]
          IN  /\ closing.type = "status" /\ closing.final
              /\ closing.state = IF TheStep.content.py = "str" THEN "completed"
                                 ELSE IF HasResult(TheStep.content) THEN "input_required"
                                 ELSE "failed"
              /\ HasResult(TheStep.content) =>
                    /\ Len(closing.parts) = 1
                    /\ closing.parts[1].kind = "data"

\* C16: a final status (completed, failed or input_required) is the last event
\* execute enqueues in the turn: no status update and no artifact follows it.
C16_TerminalIsFinal ==
    \A i \in 1..Len(event_queue) : event_queue[i].final => i = Len(event_queue)

\* C17: for a final step whose content is a plain string the loop emits one
\* artifact named form that holds the string and then the completed status, and
\* nothing else; for a final mapping it emits no form artifact; a turn never
\* holds two form artifacts.
C17_FormArtifact ==
    /\ (Handled /\ TheStep.is_task_complete)
       => IF TheStep.content.py = "str"
          THEN Emitted =
                  <<Event("artifact", "", FALSE, "form",
                          <<[kind |-> "text", text |-> TheStep.content.str]>>, 0),
                    Event("status", "completed", TRUE, "", <<>>, 0)>>
          ELSE \A i \in 1..Len(Emitted) : ~IsFormArtifact(Emitted[i])
    /\ Cardinality({i \in 1..Len(event_queue) : IsFormArtifact(event_queue[i])}) <= 1

C17_Witness ==
    /\ Handled /\ TheStep.is_task_complete
    /\ TheStep.content = PyStr("Done")
    /\ Len(contents) = 3
    /\ Len(event_queue) = mark + 5
    /\ event_queue[mark + 4].name = "form"
    /\ event_queue[mark + 4].parts[1].text = "Done"
    /\ event_queue[mark + 5].state = "completed"
    /\ turn_pc = "done"

\* C18: for each step the lines drained from the progress queue are emitted first,
\* in the order they were appended, as working status updates that are not final;
\* what the step's own payload emits comes after them; a drained line is no longer
\* in the queue; and every line ever appended is either still queued or was emitted
\* exactly once.
C18_DrainFirst ==
    /\ Handled =>
          /\ \A i \in 1..Len(contents) :
                event_queue[mark + i] =
                    Event("status", "working", FALSE, "",
                          <<[kind |-> "text", text |-> contents[i].message]>>,
                          contents[i].timestamp)
          /\ \A i \in 1..Len(contents) : \A j \in 1..Len(contents) :
                i < j => contents[i].timestamp < contents[j].timestamp
          /\ \A i \in 1..Len(Emitted) : Emitted[i].state # "working"
          /\ \A i \in 1..Len(contents) : \A j \in 1..Len(executor_messages) :
                executor_messages[j].timestamp # contents[i].timestamp
    /\ \A t \in 1..clock :
          Cardinality({j \in 1..Len(event_queue) :
                          event_queue[j].state = "working" /\ event_queue[j].timestamp = t})
          + Cardinality({i \in 1..Len(executor_messages) :
                            executor_messages[i].timestamp = t}) = 1

C18_Witness ==
    /\ Handled /\ steps = 2
    /\ Len(contents) = 2
    /\ contents[1].timestamp = 4 /\ contents[2].timestamp = 5
    /\ event_queue[mark + 1].timestamp = 4 /\ event_queue[mark + 2].timestamp = 5
    /\ ~event_queue[mark + 1].final
    /\ Len(event_queue) = mark + 3
    /\ event_queue[mark + 3].state = "failed"
    /\ executor_messages = <<>>

\* C19: handling a step that is not final emits no final status and leaves the
\* iteration by continue, whether its content is "", a text or a function response.
C19_NonFinalStep ==
    (Handled /\ ~TheStep.is_task_complete)
    => /\ item[1].way = "continue"
       /\ \A i \in 1..Len(Emitted) : ~Emitted[i].final

\* C20: a recorder write or a store append that fails inside a lifecycle hook does
\* not end the turn: no error comes out of the hook.
C20_BestEffort ==
    recording_failed => (turn_error = "" /\ turn_pc # "aborted")

\* C21: a response.result that is a string but not a JSON document does not end
\* the turn, neither in a step that is not final (the scan for image paths) nor in
\* a final one (the form payload): the step is handled without an error.
ResultOf(content) == Lookup(Lookup(content.items, "response").items, "result")
C21_ParseFailureNonFatal ==
    (/\ Handled
     /\ HasResult(TheStep.content)
     /\ json_loads(ResultOf(TheStep.content)).raised = "JSONDecodeError")
    => (item[1].way # "raise" /\ turn_error = "" /\ turn_pc # "aborted")

(***************************************************************************)
(* Properties of the hooks of the executor.  A row of records is a         *)
(* DialogueRecord in the store, its position the id the store gave it.     *)
(***************************************************************************)
HookTags == {"before_agent", "after_agent", "before_model", "after_model",
             "before_tool", "after_tool", "event"}
FiredTag == IF turn_pc = "event" THEN "event" ELSE turn_pc
NewRows == (Len(records) + 1)..Len(records')

\* C28: every record a hook appends carries one of the seven tags, and it is the
\* tag of the hook that fired; a record of an agent hook is named state, a record
\* of a tool hook has the name of the tool, and a record of on_event is tagged and
\* named event and keyed by the invocation id and the author of the event.
C28_TagOfHook ==
    [][\A i \in NewRows :
          LET r == records'[i]
          IN  /\ r.tag \in HookTags
              /\ r.tag = FiredTag
              /\ r.tag \in {"before_agent", "after_agent"} => r.name = "state"
              /\ r.tag = "before_tool" => r.name = turn_tool' /\ r.name \in ToolNames
              /\ r.tag = "after_tool" => r.name = turn_tool /\ r.name \in ToolNames
              /\ r.tag = "event" =>
                    /\ r.name = "event"
                    /\ r.agent_name = item'[1].author
                    /\ r.invocation_id = InvocationId]_vars

C28_Witness ==
    /\ \E i \in 1..Len(records) :
          /\ records[i].tag = "event" /\ records[i].name = "event"
          /\ records[i].agent_name = "toutiao_agent"
    /\ \E i \in 1..Len(records) :
          records[i].tag = "after_tool" /\ records[i].name = "get_generator_info"
    /\ \E i \in 1..Len(records) :
          records[i].tag = "before_agent" /\ records[i].name = "state"

\* C29: a hook only adds records behind those already stored, so the ids grow in
\* the order the hooks fired; and a firing of before_model or after_model adds
\* the state snapshot first and the llm_request or llm_response after it.
C29_FiringOrder ==
    [][/\ Len(records') >= Len(records)
       /\ SubSeq(records', 1, Len(records)) = records
       /\ \A i \in NewRows : records'[i].tag = FiredTag
       /\ turn_pc \in {"before_model", "after_model"} =>
             /\ Len(records') <= Len(records) + 2
             /\ Len(records') > Len(records) => records'[Len(records) + 1].name = "state"
             /\ Len(records') = Len(records) + 2 =>
                   records'[Len(records) + 2].name =
                       IF turn_pc = "before_model" THEN "llm_request"
                       ELSE "llm_response"]_vars

C29_Witness ==
    \E i \in 1..(Len(records) - 3) :
        /\ records[i].tag = "before_model" /\ records[i].name = "state"
        /\ records[i + 1].tag = "before_model" /\ records[i + 1].name = "llm_request"
        /\ records[i + 2].tag = "after_model" /\ records[i + 2].name = "state"
        /\ records[i + 3].tag = "after_model" /\ records[i + 3].name = "llm_response"

\* C30 as stated: every firing of one of the six hooks of the executor that
\* returns appends one progress line, whatever the tool.
ExecutorHooks == HookTags \ {"event"}
RECURSIVE AsLists(_, _)
RECURSIVE AsListsElems(_, _)
RECURSIVE AsListsItems(_, _)
AsLists(v, kinds) ==
    CASE v.py = "dict" -> {PyDict(i) : i \in AsListsItems(v.items, kinds)}
      [] v.py = "list" -> {PyList(l) : l \in AsListsElems(v.elems, kinds)}
      [] v.py = "tuple" -> IF "tuple" \in kinds
                           THEN {PyList(l) : l \in AsListsElems(v.elems, kinds)}
                           ELSE {PyTuple(l) : l \in AsListsElems(v.elems, kinds)}
      [] v.py = "set" ->
            UNION {{PyList(l) : l \in AsListsElems(o, kinds)} : o \in Orderings(v.members)}
      [] OTHER -> {v}

AsListsElems(l, kinds) ==
    IF l = <<>> THEN {<<>>}
    ELSE {<<a>> \o b : a \in AsLists(Head(l), kinds), b \in AsListsElems(Tail(l), kinds)}

AsListsItems(items, kinds) ==
    IF items = <<>> THEN {<<>>}
    ELSE {<<<<Head(items)[1], a>>>> \o b :
            a \in AsLists(Head(items)[2], kinds), b \in AsListsItems(Tail(items), kinds)}

StoredIds == {db_rows[i].id : i \in 1..Len(db_rows)}
RoundTrip(kinds) ==
    /\ \A k \in 1..Len(db_log) :
          LET got == get_by_id(db_rows, db_log[k].id)
          IN  /\ got # <<>>
              /\ got[1].id = db_log[k].id
              /\ got[1].tag = db_log[k].record.tag
              /\ got[1].name = db_log[k].record.name
              /\ got[1].data \in AsLists(db_log[k].record.data, kinds)
    /\ \A record_id \in 1..(MaxAppends + 1) :
          record_id \notin StoredIds => get_by_id(db_rows, record_id) = <<>>
    /\ db_result.op = "get_by_id" =>
          db_result.found = get_by_id(db_rows, db_result.id)

\* C22 as stated: get_by_id of the id append returned yields the tag, the name and
\* the data of the record handed in, the sets inside the data read back as lists
\* and everything else as it was; get_by_id of an id no row has yields nothing.
C22_RoundTripSets == RoundTrip({"set"})

\* C22, amended: the data come back as JSON reads them, sets and tuples alike as
\* lists.
C22_RoundTripJson == RoundTrip({"set", "tuple"})

C22_Witness ==
    /\ db_result.op = "get_by_id" /\ db_result.id = 2
    /\ Len(db_log) = 2 /\ db_log[1].id = 1 /\ db_log[2].id = 2
    /\ db_log[2].record.tag = "event"
    /\ db_log[2].record.data.items[2][2] = PySet({PyStr("x"), PyStr("y")})
    /\ db_result.found # <<>>
    /\ db_result.found[1].data.items[2][2] = PyList(<<PyStr("y"), PyStr("x")>>)
    /\ db_log[1].record.data = PyNone
    /\ get_by_id(db_rows, 1)[1].data = PyNone
    /\ get_by_id(db_rows, 3) = <<>>

\* the keyword occurs, letter case aside, in the name of the row or in the text of
\* its data
Occurs(keyword, row) ==
    \/ Contains(lower(row.name), lower(keyword))
    \/ row.data # NULL /\ Contains(lower(row.data), lower(keyword))

\* C23: search_by_keyword returns at most limit records, every record it returns
\* has the keyword in its name or somewhere in its stringified data, and a stored
\* record that has the keyword is returned unless limit records were returned.
C23_KeywordSearch ==
    db_result.op = "search_by_keyword" =>
        LET found == db_result.found
            ids == {found[i].id : i \in 1..Len(found)}
        IN  /\ Len(found) <= db_result.limit
            /\ \A i \in 1..Len(db_rows) :
                  /\ db_rows[i].id \in ids => Occurs(db_result.keyword, db_rows[i])
                  /\ Occurs(db_result.keyword, db_rows[i]) =>
                        db_rows[i].id \in ids \/ Len(found) = db_result.limit

SameFields(row, rec) ==
    /\ row.timestamp = rec.timestamp /\ row.invocation_id = rec.invocation_id
    /\ row.tag = rec.tag /\ row.name = rec.name

\* C24: no step of the store changes or removes a row: the rows there stay as they
\* are, a new row is a record some invocation had added, it gets its id when it is
\* inserted, the ids of the rows are pairwise distinct, and every append that
\* returned an id has its row under that id; also when the appends of two
\* invocations interleave.
C24_AppendOnly ==
    [][/\ Len(db_rows') >= Len(db_rows)
       /\ SubSeq(db_rows', 1, Len(db_rows)) = db_rows
       /\ \A i \in 1..Len(db_rows') : \A j \in 1..Len(db_rows') :
             i # j => db_rows'[i].id # db_rows'[j].id
       /\ \A i \in (Len(db_rows) + 1)..Len(db_rows') :
             /\ db_rows'[i].id > 0
             /\ \E inv \in Invocations :
                   /\ db_pending[inv] # <<>> /\ db_pending'[inv] = <<>>
                   /\ db_pending[inv][1].id = 0
                   /\ SameFields(db_rows'[i], db_pending[inv][1])
       /\ \A k \in 1..Len(db_log') :
             \E i \in 1..Len(db_rows') :
                 /\ db_rows'[i].id = db_log'[k].id
                 /\ SameFields(db_rows'[i], db_log'[k].record)]_vars

C24_Witness ==
    /\ Len(db_rows) = 2
    /\ db_rows[1].id = 1 /\ db_rows[1].timestamp = 2
    /\ db_rows[2].id = 2 /\ db_rows[2].timestamp = 1
    /\ db_rows[1].invocation_id # db_rows[2].invocation_id
    /\ db_log[1].record.timestamp = 2

(***************************************************************************)
(* Properties of the Recorder.  Newest is the latest call; the calls       *)
(* between two calls of one millisecond are of that millisecond too.       *)
(***************************************************************************)
Newest == Len(filenames)
SameMilli(i) == filenames[i].formatted_time = filenames[Newest].formatted_time

\* C25 as stated: 63 consecutive calls in one millisecond yield pairwise distinct
\* names.
C25_Rotation63 ==
    \A i \in 1..(Newest - 1) :
        (SameMilli(i) /\ Newest - i < 63) =>
            filenames[i].full_name # filenames[Newest].full_name

\* C25, amended: the rotation has as many positions as there are tags, 62: two
\* calls of one millisecond yield the same name exactly when their distance is a
\* multiple of that number, so that up to 62 consecutive calls yield pairwise
\* distinct names and the next one collides with the first.
C25_Rotation ==
    \A i \in 1..(Newest - 1) :
        SameMilli(i) =>
            ((filenames[i].full_name = filenames[Newest].full_name)
                <=> ((Newest - i) % Len(tags) = 0))

C25_Witness ==
    /\ Newest = Len(tags) + 1
    /\ SameMilli(1)
    /\ filenames[1].full_name = "1.0-state.json"
    /\ filenames[Len(tags)].full_name = "1.z-state.json"
    /\ filenames[Newest].full_name = "1.0-state.json"

\* C26: whatever the interleaving of the turns on one session id, create_session
\* is called at most once for that id.
C26_CreatedOnce ==
    \A i \in 1..Len(creations) : \A j \in 1..Len(creations) :
        creations[i].session_id = creations[j].session_id => i = j

(***************************************************************************)
(* Properties of the video job poll loop                                   *)
(***************************************************************************)
Waiting(answer) == answer.status \in {"queued", "running"}
WithUrl(answer) == answer.status = "succeeded" /\ (answer.result # "" \/ answer.content # "")

\* C27: on every answer of queued or running the loop sleeps the same fixed
\* interval and polls again; it stops on the first other answer: it returns the
\* URL when the answer is succeeded with a URL, and it raises and returns no URL
\* when the answer is failed or anything else.
C27_PollUntilTerminal ==
    /\ \A i \in 1..Len(seen) :
          /\ i < Len(seen) => Waiting(seen[i].answer) /\ seen[i].slept = retry_interval
          /\ seen[i].slept \in {0, retry_interval}
    /\ seen # <<>> =>
          LET newest == seen[Len(seen)]
          IN  /\ poll_pc = "sleep" => Waiting(newest.answer) /\ newest.slept = 0
              /\ (poll_pc = "poll") => Waiting(newest.answer) /\ newest.slept = retry_interval
              /\ ~Waiting(newest.answer) => poll_pc \in {"returned", "raised"}
              /\ (poll_pc = "raised" /\ poll_out.raised # "HTTPStatusError")
                    => ~Waiting(newest.answer)
              /\ WithUrl(newest.answer) =>
                    /\ poll_pc = "returned"
                    /\ poll_out.video_url \in {newest.answer.result, newest.answer.content} \ {""}
              /\ (~Waiting(newest.answer) /\ ~WithUrl(newest.answer)) =>
                    poll_pc = "raised" /\ poll_out.video_url = "" /\ poll_out.raised # ""
    /\ poll_pc = "returned" => seen # <<>> /\ WithUrl(seen[Len(seen)].answer)

(***************************************************************************)
(* The index and the tag of the Recorder.  TagOf is the character between  *)
(* the formatted time and the logical name of a full name.                 *)
(***************************************************************************)
TagOf(f) == SubSeq(f.full_name, Len(ToString(f.formatted_time)) + 2,
                   Len(ToString(f.formatted_time)) + 2)

\* C31: after every make_filename call the index is within 0..61 and the tag is
\* the character of the 62-symbol alphabet at the index; the index is 0 on the
\* first call of a millisecond and the previous index plus one modulo 62 on a call
\* in the millisecond of the previous call.
C31_IndexAndTag ==
    [][Len(filenames') = Len(filenames) + 1 =>
          /\ max = 62
          /\ idx' \in 0..61
          /\ TagOf(filenames'[Len(filenames')]) = SubSeq(tags, idx' + 1, idx' + 1)
          /\ IF filenames # <<>> /\ filenames[Newest].formatted_time = now
             THEN idx' = (idx + 1) % 62
             ELSE idx' = 0]_vars

\* 62 calls in the first millisecond, the last at index 61, then a second round
\* begun and the index reset by a call in the next millisecond
C31_Witness ==
    /\ Newest = 64
    /\ filenames[62].formatted_time = 1 /\ TagOf(filenames[62]) = "z"
    /\ filenames[63].formatted_time = 1 /\ TagOf(filenames[63]) = "0"
    /\ filenames[64].formatted_time = 2 /\ TagOf(filenames[64]) = "0"
    /\ idx = 0

(***************************************************************************)
(* The ids under which one convert_parts call saves its files              *)
(***************************************************************************)
\* C32: each file conversion saves the bytes under an id of its own and returns
\* a reference to that id, so that two file Parts converted through one tool
\* context, two files of the same name among them, are saved under different ids
\* and get different references.
C32_OwnFileId ==
    (conv_pc = "many" /\ conv_out.raised = "")
    => /\ \A i \in 1..Len(conv_parts) :
             conv_parts[i].kind = "file"
             => \E k \in (Len(conv_ctx.saved) + 1)..Len(conv_out.ctx.saved) :
                   /\ conv_out.rval[i] =
                          [DataPart |-> [artifact_file_id |-> conv_out.ctx.saved[k].filename]]
                   /\ conv_out.ctx.saved[k].artifact.inline_data.data
                          = b64decode(conv_parts[i].file.bytes)
       /\ \A i, j \in 1..Len(conv_parts) :
             (i < j /\ conv_parts[i].kind = "file" /\ conv_parts[j].kind = "file")
             => conv_out.rval[i] # conv_out.rval[j]
       /\ \A k, l \in (Len(conv_ctx.saved) + 1)..Len(conv_out.ctx.saved) :
             k < l => conv_out.ctx.saved[k].filename # conv_out.ctx.saved[l].filename

(***************************************************************************)
(* Properties of the query by invocation id                                *)
(***************************************************************************)
\* C33: get_by_invocation_id returns one record of the invocation asked for, or
\* no record when the store has none of that invocation, and raises nothing,
\* whatever the hooks have appended: several records of one invocation included.
C33_OneOrNone ==
    db_result.op = "get_by_invocation_id"
    => /\ db_result.raised = ""
       /\ Len(db_result.found) <= 1
       /\ (db_result.found = <<>>)
             <=> (\A i \in 1..Len(db_rows) : db_rows[i].invocation_id # db_result.keyword)
       /\ \A i \in 1..Len(db_result.found) :
             db_result.found[i].invocation_id = db_result.keyword

(***************************************************************************)
(* Properties of the hooks wired through the forwarders                    *)
(***************************************************************************)
\* C34: a firing of a hook records each snapshot once: a firing of before_agent,
\* after_agent, before_tool or after_tool that returns appends one record with
\* that tag and writes one file, and a firing of before_model or after_model that
\* returns appends one state record and one request or response record.
C34_RecordedOnce ==
    [][(turn_pc \in ExecutorHooks /\ turn_pc' # "aborted")
       => /\ \A i \in NewRows : records'[i].tag = turn_pc
          /\ IF turn_pc \in {"before_model", "after_model"}
             THEN /\ Len(records') = Len(records) + 2
                  /\ records'[Len(records) + 1].name = "state"
                  /\ records'[Len(records) + 2].name \in {"llm_request", "llm_response"}
             ELSE /\ Len(records') = Len(records) + 1
                  /\ Len(files') = Len(files) + 1]_vars

(***************************************************************************)
(* The frame of a dispatch: pre is the session state send_message found    *)
(***************************************************************************)
DispatchKeys == {"agent", "task_id", "context_id", "session_active"}
SameKey(k) == Has(state, k) = Has(pre, k) /\ (Has(state, k) => state[k] = pre[k])

\* C35: a dispatch writes only the keys agent, task_id, context_id and
\* session_active of the session state; every other key, message_id among them,
\* is present or absent afterwards as before and holds the same value, so that a
\* message id generated for the request of a dispatch is not the message id of
\* the next.
C35_DispatchFrame ==
    Dispatched
    => /\ \A k \in (DOMAIN state \cup DOMAIN pre) \ DispatchKeys : SameKey(k)
       /\ SameKey("message_id")
       /\ (request # <<>> /\ prev.request # <<>> /\ ~Has(pre, "message_id"))
             => request[1].message.messageId # prev.request[1].message.messageId

\* a second dispatch in a session without message_id, after a first that got an
\* input_required task
C35_Witness ==
    /\ Dispatched /\ outcome = "returned"
    /\ prev.task # <<>> /\ prev.task[1].state = "input_required"
    /\ request # <<>> /\ prev.request # <<>>
    /\ ~Has(pre, "message_id") /\ ~Has(state, "message_id")
    /\ Has(state, "session_id")
    /\ Get(pre, "task_id") = "t1" /\ Get(state, "task_id") = "t2"

\* C36: a dispatch that fails at the resolve step, with UnknownAgent or with
\* ClientUnavailable, leaves the session state as it was before the call.
C36_ResolveFailureFrame ==
    (Dispatched /\ outcome \in {"UnknownAgent", "ClientUnavailable"}) => state = pre

(***************************************************************************)
(* The signal of a dispatch that returned, in the tool context the         *)
(* framework made for the call                                             *)
(***************************************************************************)
FilePartsOf(task) ==
    {i \in 1..Len(PartsInOrder(task)) : PartsInOrder(task)[i].kind = "file"}

\* C37: after a dispatch that returns with a task, skip_summarization and
\* escalate are set exactly when the task is in state input_required or one of
\* its Parts, of the status message or of an artifact, is a file; a dispatch that
\* converts only text and data Parts of a task in another state leaves the two
\* flags as they were and saves no artifact.
C37_SignalIff ==
    (GotTask /\ outcome = "returned")
    => /\ SignalSet <=> (TheTask.status.state = "input_required"
                            \/ FilePartsOf(TheTask) # {})
       /\ actions.skip_summarization = actions.escalate
       /\ Len(saved) = Cardinality(FilePartsOf(TheTask))
       /\ (TheTask.status.state # "input_required" /\ FilePartsOf(TheTask) = {})
             => actions = NoActions /\ saved = <<>>

\* a completed task with a file among its Parts, and the signal set by it
C37_Witness ==
    /\ GotTask /\ outcome = "returned"
    /\ TheTask.status.state = "completed"
    /\ Len(PartsInOrder(TheTask)) = 3
    /\ FilePartsOf(TheTask) = {2}
    /\ SignalSet /\ Len(saved) = 1

(***************************************************************************)
(* session_active between the dispatches of a session; last is the most    *)
(* recent dispatch                                                         *)
(***************************************************************************)
\* C40: session_active is TRUE only while the task the most recent dispatch
\* returned is not closed: after a dispatch that returned a completed, canceled,
\* failed or unknown task, session_active is FALSE and check_state names no active
\* agent, until the next dispatch returns a task that is not closed.
C40_ActiveOnlyWhileOpen ==
    (last.task # <<>>
        /\ last.task[1].state \in {"completed", "canceled", "failed", "unknown"})
    => /\ ~(Has(state, "session_active") /\ state["session_active"])
       /\ check_state(state).active_agent = "None"

(***************************************************************************)
(* The progress queue when execute has returned                            *)
(***************************************************************************)
\* C39: every progress line appended during a turn is emitted as a status update
\* within that turn: when the turn has ended, completed, failed or
\* input_required, the progress queue is empty.
C39_QueueEmptyAtEnd ==
    (turn_pc = "done"
        /\ \E i \in 1..Len(event_queue) :
              event_queue[i].final
              /\ event_queue[i].state \in {"completed", "failed", "input_required"})
    => executor_messages = <<>>

(***************************************************************************)
(* Two turns in flight: whose lines a turn emits.  The event queue of a    *)
(* call is the queue of its task; a working status carries the timestamp   *)
(* of the progress line it was made from.                                  *)
(***************************************************************************)
Owner(n) == IF n <= Len(flight.owner) THEN flight.owner[n] ELSE flight.current
LinesOf(queue) ==
    {queue[i].timestamp : i \in {j \in 1..Len(queue) : queue[j].state = "working"}}

\* C38: with two turns in flight on the one executor, every progress line is
\* emitted as a status update of the task whose hook appended it: the event queue
\* of a task holds no line that a hook of the other task's turn appended.
C38_OwnLinesOnly ==
    /\ \A n \in LinesOf(event_queue) : Owner(n) = flight.current
    /\ \A n \in LinesOf(flight.suspended.event_queue) : Owner(n) # flight.current

====
